---- MODULE Spec2Model ----
(***************************************************************************)
(* A model of soxspipe's dispersion-solution core                          *)
(* (soxspipe/commonutils/create_dispersion_map.py):                        *)
(*                                                                         *)
(*   - the inverse rasteriser: map_to_image, order_to_image,               *)
(*     convert_and_fit, create_placeholder_images        (SpecRaster)      *)
(*   - the robust global fitter: fit_polynomials,                          *)
(*     calculate_residuals                               (SpecFit)         *)
(*   - the driver get(): get_predicted_line_list,                          *)
(*     detect_pinhole_arc_line, fit, write_map_to_file   (Spec)            *)
(*                                                                         *)
(* Real numbers are held in fixed point.  Detector positions are integers  *)
(* in units of 1/PX pixel, so a pixel centre x + 1/2 is x*PX + HalfPx.     *)
(* Wavelengths and slit positions are integers in grid units, and the      *)
(* half-widths and steps of a zoom grid are rounded down to that grid.     *)
(* NaN is a distinguished value and every operation on numbers treats it   *)
(* as numpy does.                                                          *)
(***************************************************************************)
EXTENDS Integers, Sequences, FiniteSets, TLC

(***************************************************************************)
(* Bounds of the model                                                     *)
(***************************************************************************)
HalfPx == 4          \* position units in half a pixel
Xlen == 4            \* science-pixel columns of the detector
Ylen == 4            \* science-pixel rows of the detector
NumOrders == 2       \* orders in the spectral format / order table
GridSize == 3        \* zoom_grid_size of the recipe settings

PX == 2 * HalfPx
Orders == 1..NumOrders

(***************************************************************************)
(* Numbers                                                                 *)
(***************************************************************************)
NaN == -1000000

IsNaN(v) == v = NaN

Abs(v) == IF v < 0 THEN -v ELSE v

Sq(v) == v * v

RECURSIVE ISqrtIter(_, _, _)
ISqrtIter(n, lo, hi) ==
    IF lo >= hi THEN lo
    ELSE LET mid == (lo + hi + 1) \div 2
         IN IF mid * mid <= n THEN ISqrtIter(n, mid, hi)
                              ELSE ISqrtIter(n, lo, mid - 1)

\* floor of the square root of a non-negative integer
ISqrt(n) ==
    IF n <= 0 THEN 0 ELSE ISqrtIter(n, 0, IF n < 46340 THEN n ELSE 46340)

RECURSIVE SumF(_, _)
SumF(f, S) ==
    IF S = {} THEN 0
    ELSE LET i == CHOOSE j \in S : TRUE
         IN f[i] + SumF(f, S \ {i})

\* n*n*variance of f over the index set S (n = |S|): n*sum(v^2) - sum(v)^2
VarNum(f, S) ==
    Cardinality(S) * SumF([i \in S |-> Sq(f[i])], S) - Sq(SumF(f, S))

VARIABLES
    \* ---- inverse rasteriser -------------------------------------------
    rpc,              \* position of map_to_image
    axisA,            \* "y" for SOXS, "x" for XSHOOTER (__init__)
    threshold,        \* map_to_image_displacement_threshold, position units
    gridRes,          \* [wavelength, slit]: grid_res_wavelength, grid_res_slit
    dispMap,          \* coefficients of the fitted forward map
    orderTable,       \* per order: the edges of its trace along axis A
    opc,              \* per order: position of its order_to_image work unit
    wlMap,            \* per order: the wavelength place-holder image
    slitMap,          \* per order: the slit place-holder image
    bigArray,         \* per order: bigWlArray/bigSlitArray, row by row
    iteration,        \* per order: iteration of order_to_image
    remainingCount,   \* per order
    remainingPixels,  \* per order
    newPixels,        \* per order: pixels of newPixelValue in the last pass
    combinedWlImage,  \* the WAVELENGTH extension written by map_to_image
    combinedSlitImage,\* the SLIT extension
    orderImage        \* the ORDER extension

rasterVars == <<rpc, axisA, threshold, gridRes, dispMap, orderTable,
                opc, wlMap, slitMap, bigArray, iteration, remainingCount,
                remainingPixels, newPixels, combinedWlImage,
                combinedSlitImage, orderImage>>

VARIABLES
    \* ---- get(), up to the fit ------------------------------------------
    pc,               \* position of get()
    dprTech,          \* the DPR TECH keyword of the pinhole frame
    frameHeader,      \* the header of the pinhole frame, keyword |-> value
    firstGuessMap,    \* the first-guess dispersion map handed to __init__
    orderTablePath,   \* TRUE iff an order table was handed to __init__
    predictedLines,   \* the predicted-line catalogue of the frame's arm
    recipeSettings,   \* order-deg, wavelength-deg, slit-deg, clipping
    orderPixelTable,  \* the line table, row by row
    totalLines,       \* rows handed to the line detection
    qc,               \* the QC records, in the order they were appended
    raised,           \* the exception that ended the run, "none" without
    \* ---- fit_polynomials -----------------------------------------------
    slitDeg,          \* the slit degree get() hands to the fit
    clippedCount,
    clipIteration,    \* iteration of fit_polynomials
    xcoeff,           \* the fitted x polynomial, by the cells of its terms
    ycoeff,
    resPlot,          \* TRUE iff fit_polynomials has saved the residual plot
    mapFile,          \* the dispersion map written by write_map_to_file
    \* ---- the construction of a recipe ----------------------------------
    inputFrames,        \* the frames handed to the recipe
    supplementaryInput, \* TRUE iff a DISP_MAP of the arm came with them
    recipe              \* the recipe object: position, exception, frames
                        \* prepared

recipeVars == <<inputFrames, supplementaryInput, recipe>>

driverVars == <<pc, dprTech, frameHeader, firstGuessMap, orderTablePath, predictedLines,
                recipeSettings, orderPixelTable, totalLines, qc, raised,
                recipeVars>>

fitVars == <<slitDeg, clippedCount, clipIteration, xcoeff, ycoeff, resPlot,
            mapFile>>

vars == <<rasterVars, driverVars, fitVars>>

\* everything but the recipe object and its inputs
engineVars == <<rasterVars, pc, dprTech, frameHeader, firstGuessMap,
                orderTablePath, predictedLines, recipeSettings,
                orderPixelTable, totalLines, qc, raised, fitVars>>

(***************************************************************************)
(* The header of the pinhole frame                                         *)
(***************************************************************************)
Arms == {"NIR", "VIS"}

\* the keywords write_map_to_file pops without a guard, and with one
DprKeys == {"DPR_TECH", "DPR_CATG", "DPR_TYPE"}

AmplifierKeys == {"DET_READ_SPEED", "CONAD", "GAIN", "RON"}

\* a frame header of the arm and technique with the keywords present
FrameHeader(arm, tech, present) ==
    [t \in {"SEQ_ARM", "EXPTIME"} \cup present |->
        CASE t = "SEQ_ARM" -> arm
          [] t = "EXPTIME" -> "10"
          [] t = "DPR_TECH" -> tech
          [] t = "DPR_CATG" -> "CALIB"
          [] t = "DPR_TYPE" -> "LAMP,FMTCHK"
          [] t = "DET_READ_SPEED" -> "1pt/400k/lg"
          [] t = "CONAD" -> "2"
          [] t = "GAIN" -> "1"
          [] t = "RON" -> "3"]

\* the header of a frame as the pipeline prepares it
FullHeader(tech) == FrameHeader("NIR", tech, DprKeys \cup AmplifierKeys)

(***************************************************************************)
(* The construction of a recipe (soxs_stare_mode.__init__)                 *)
(***************************************************************************)
\* the input sets considered: up to two frames, each a pinhole frame of an
\* arm with at most one keyword changed.  A frame is given by the header
\* keywords the verification reads; NaN is a keyword without a value
InputFrameSets ==
    LET RawFrame(arm) ==
            [arm |-> arm, cdelt1 |-> 1, cdelt2 |-> 1, read_speed |-> 1,
             conad |-> 2, ron |-> 3, chip_ron |-> NaN,
             dpr_type |-> "LAMP,FMTCHK", dpr_tech |-> "ECHELLE,PINHOLE"]
        numeric == {<<"cdelt1", 2>>, <<"cdelt2", 2>>, <<"read_speed", 2>>,
                    <<"conad", 3>>, <<"ron", 4>>, <<"ron", NaN>>,
                    <<"chip_ron", 5>>}
        textual == {<<"dpr_type", "BIAS">>, <<"dpr_type", "OBJECT">>,
                    <<"dpr_tech", "IMAGE">>, <<"dpr_tech", "ECHELLE,SLIT">>}
        frames == {RawFrame(a) : a \in Arms}
                  \cup {[RawFrame(a) EXCEPT ![d[1]] = d[2]] :
                           a \in Arms, d \in numeric}
                  \cup {[RawFrame(a) EXCEPT ![d[1]] = d[2]] :
                           a \in Arms, d \in textual}
    IN {{}} \cup {{f, g} : f \in frames, g \in frames}

\* a verification that takes every input set
VerifyNothing(frames, hasDispMap) == "none"

\* verify_input_frames: the exception it raises on the frames, "none" when
\* it returns
VerifyInputFrames(frames, hasDispMap) ==
    LET values(k) == {f[k] : f \in frames}
        ron1 == {v \in values("ron") : ~IsNaN(v)}
        ron2 == {v \in values("chip_ron") : ~IsNaN(v)}
        imageTypes == values("dpr_type")
        imageTech == values("dpr_tech")
        Mixed(S) == Cardinality(S) > 1
    IN IF frames = {} THEN "FileNotFoundError"
       \* " and ".join(arms): arms is not bound
       ELSE IF Mixed(values("arm")) THEN "UnboundLocalError"
       ELSE IF Mixed(values("cdelt1")) \/ Mixed(values("cdelt2"))
            THEN "TypeError"
       ELSE IF Mixed(values("read_speed")) THEN "TypeError"
       ELSE IF Mixed(values("conad")) THEN "TypeError"
       \* the message of the AttributeError names %(frame)s, not a local
       ELSE IF ron1 = {} /\ ron2 = {} THEN "KeyError"
       ELSE IF Mixed(ron1) \/ Mixed(ron2) THEN "TypeError"
       ELSE IF ron1 # {} /\ ron2 # {} THEN "TypeError"
       ELSE IF values("arm") = {"NIR"}
            THEN IF Mixed(imageTypes) THEN "TypeError"
                 ELSE IF imageTypes # {"LAMP,FMTCHK"} THEN "TypeError"
                 ELSE IF ~(imageTech \subseteq {"ECHELLE,PINHOLE", "IMAGE"})
                      THEN "TypeError"
                 ELSE IF ~hasDispMap THEN "TypeError"
                 ELSE "none"
       ELSE IF ~(imageTypes \subseteq {"LAMP,FMTCHK", "BIAS", "DARK"})
            THEN "TypeError"
       ELSE IF ~hasDispMap THEN "TypeError"
       ELSE "none"

\* verify_input_frames raises: __init__ ends with the exception
RecipeVerifyRaise ==
    /\ recipe.pc = "init"
    /\ VerifyInputFrames(inputFrames, supplementaryInput) # "none"
    /\ recipe' = [recipe EXCEPT
                     !.pc = "raised",
                     !.raised = VerifyInputFrames(inputFrames,
                                                  supplementaryInput)]
    /\ UNCHANGED <<inputFrames, supplementaryInput, engineVars>>

\* verify_input_frames returns
RecipeVerify ==
    /\ recipe.pc = "init"
    /\ VerifyInputFrames(inputFrames, supplementaryInput) = "none"
    /\ recipe' = [recipe EXCEPT !.pc = "verified"]
    /\ UNCHANGED <<inputFrames, supplementaryInput, engineVars>>

\* prepare_frames: every input frame is prepared and written with the _pre
\* tag, and __init__ returns
RecipePrepareFrames ==
    /\ recipe.pc = "verified"
    /\ recipe' = [recipe EXCEPT !.pc = "constructed",
                                !.prepared = inputFrames]
    /\ UNCHANGED <<inputFrames, supplementaryInput, engineVars>>

\* produce_product: clean_up, and the product path None
RecipeProduceProduct ==
    /\ recipe.pc = "constructed"
    /\ recipe' = [recipe EXCEPT !.pc = "done"]
    /\ UNCHANGED <<inputFrames, supplementaryInput, engineVars>>

\* no recipe of this kind is being constructed
NoRecipe ==
    /\ inputFrames = {}
    /\ supplementaryInput = FALSE
    /\ recipe = [pc |-> "init", raised |-> "none", prepared |-> {}]

(***************************************************************************)
(* Detector geometry and the place-holder images                           *)
(***************************************************************************)
Pixels == (0..(Ylen - 1)) \X (0..(Xlen - 1))     \* <<y, x>>, as data[y, x]

axisB == IF axisA = "x" THEN "y" ELSE "x"

axisALen == IF axisA = "x" THEN Xlen ELSE Ylen

axisBLen == IF axisA = "x" THEN Ylen ELSE Xlen

\* data[b, a] when axis A is x, data[a, b] otherwise
PixelAB(a, b) == IF axisA = "x" THEN <<b, a>> ELSE <<a, b>>

Floor(p) == p \div PX

Ceil(p) == (p + PX - 1) \div PX

\* the rows of the unpacked order table of order o that pass the filter
ValidCoords(o) ==
    {b \in 0..axisBLen :
        LET l == orderTable[o].edgelow
            u == orderTable[o].edgeup
        IN  /\ l > 0 /\ l < axisALen * PX
            /\ u > 0 /\ u < axisALen * PX
            /\ b > 0 /\ b < axisBLen}

\* the pixels data[.., l:u] of the trace of order o
InTrace(o) ==
    {PixelAB(a, b) : a \in {c \in 0..(axisALen - 1) :
                              /\ c >= Floor(orderTable[o].edgelow)
                              /\ c < Ceil(orderTable[o].edgeup)},
                     b \in ValidCoords(o)}

\* create_placeholder_images(order=o): NaN inside the order, 0 outside
Placeholder(o) == [p \in Pixels |-> IF p \in InTrace(o) THEN NaN ELSE 0]

\* the last order of uniqueOrders whose trace holds p (0 when none does)
RECURSIVE LastOrderAt(_, _)
LastOrderAt(p, o) ==
    IF o = 0 THEN 0
    ELSE IF p \in InTrace(o) THEN o ELSE LastOrderAt(p, o - 1)

\* create_placeholder_images(reverse=True): 0 inside any order, NaN outside
PlaceholderReverse ==
    [p \in Pixels |-> IF LastOrderAt(p, NumOrders) = 0 THEN NaN ELSE 0]

\* the orderMap of create_placeholder_images(reverse=True)
OrderMapReverse ==
    [p \in Pixels |-> IF LastOrderAt(p, NumOrders) = 0 THEN NaN
                      ELSE LastOrderAt(p, NumOrders)]

(***************************************************************************)
(* Inputs of the rasteriser                                                *)
(***************************************************************************)
\* dp["slit_length"], in slit grid units
SlitLength == PX

\* WLMINFUL and WLMAXFUL of the spectral format table
WaveLengthMin(o) == 30

WaveLengthMax(o) == 32

iterationLimit == 20

\* the wriggle room added at each side of the wavelength range
WlPad == 20

\* the fitted forward maps considered: position along the dispersion axis B
\* is mB*wavelength + cB, position along axis A is slit_position + cA[order]
\* for a map of slit degree 1 and cA[order] for a map of slit degree 0
DispMaps ==
    {[mB |-> m, cB |-> c,
      cA |-> [o \in Orders |-> o * PX + HalfPx + (IF o = 1 THEN d ELSE 2)],
      slit_deg |-> sd] :
        m \in {1}, c \in {-24, -23}, d \in {1, 2}, sd \in {0, 1}}

\* the order tables considered: separate traces, traces that abut inside a
\* pixel row (so that the row belongs to both), and
\* a table whose last order has its upper edge off the detector
OrderTables ==
    {[o \in Orders |-> [edgelow |-> o * PX + 1, edgeup |-> (o + 1) * PX]],
     [o \in Orders |-> [edgelow |-> o * PX + (IF o = 1 THEN 1 ELSE 3),
                        edgeup |-> (o + 1) * PX + 2]],
     [o \in Orders |-> [edgelow |-> o * PX + 1,
                        edgeup |-> IF o = NumOrders THEN Ylen * PX + Xlen * PX
                                   ELSE (o + 1) * PX]]}

(***************************************************************************)
(* The forward map (dispersion_map_to_pixel_arrays)                        *)
(***************************************************************************)
PosB(o, wavelength) == dispMap.mB * wavelength + dispMap.cB

PosA(o, slit_position) ==
    IF dispMap.slit_deg > 0 THEN slit_position + dispMap.cA[o]
                            ELSE dispMap.cA[o]

FitX(o, wavelength, slit_position) ==
    IF axisB = "x" THEN PosB(o, wavelength) ELSE PosA(o, slit_position)

FitY(o, wavelength, slit_position) ==
    IF axisB = "y" THEN PosB(o, wavelength) ELSE PosA(o, slit_position)

\* one row of orderPixelTable in convert_and_fit
SampleRow(o, s) ==
    LET fx == FitX(o, s.wavelength, s.slit_position)
        fy == FitY(o, s.wavelength, s.slit_position)
        px == Floor(fx)
        py == Floor(fy)
        rx == fx - (px * PX + HalfPx)
        ry == fy - (py * PX + HalfPx)
    IN [wavelength |-> s.wavelength, slit_position |-> s.slit_position,
        fit_x |-> fx, fit_y |-> fy, pixel_x |-> px, pixel_y |-> py,
        residual_x |-> rx, residual_y |-> ry,
        residual_xy2 |-> Sq(rx) + Sq(ry)]

\* the mask of dispersion_map_to_pixel_arrays
FitMask(row) == row.fit_x > 0 /\ row.fit_y > 0

(***************************************************************************)
(* The initial grid of order_to_image                                      *)
(***************************************************************************)
\* np.arange(start, stop, step) as a sequence
Arange(start, stop, step) ==
    LET n == IF stop <= start THEN 0 ELSE (stop - start + step - 1) \div step
    IN [i \in 1..n |-> start + (i - 1) * step]

halfGrid == (SlitLength * 11) \div 20

slitArray == Arange(-halfGrid, halfGrid + gridRes.slit, gridRes.slit)

wlArray(o) == Arange(WaveLengthMin(o) - WlPad, WaveLengthMax(o) + WlPad,
                     gridRes.wavelength)

\* bigWlArray = tile(wlArray, len(slitArray)), bigSlitArray the matching slits
InitialGrid(o) ==
    LET nw == Len(wlArray(o))
        ns == Len(slitArray)
    IN [i \in 1..(nw * ns) |->
            [wavelength |-> wlArray(o)[((i - 1) % nw) + 1],
             slit_position |-> slitArray[((i - 1) \div nw) + 1]]]

(***************************************************************************)
(* convert_and_fit                                                         *)
(***************************************************************************)
\* np.where(np.isnan(current), value, current)
CommitOverwrite(current, value) == value

CommitValue(current, value) == IF IsNaN(current) THEN value ELSE current

\* residual_xy < map_to_image_displacement_threshold
CloseAlways(residual_xy2) == TRUE

CloseEnough(residual_xy2) == residual_xy2 < Sq(threshold)

\* count > 2
CountAny(count) == count > 0

CountMask(count) == count > 2

\* the first row of a group in the order of the sort by residual_xy
FirstOf(rows, g) ==
    CHOOSE i \in g : \A j \in g :
        \/ rows[i].residual_xy2 < rows[j].residual_xy2
        \/ rows[i].residual_xy2 = rows[j].residual_xy2 /\ i <= j

\* the groups of convert_and_fit: pixel <<pixel_x, pixel_y>> |-> row indices
PixelGroups(rows) ==
    LET kept == {i \in DOMAIN rows : FitMask(rows[i])}
        allPix == {<<rows[i].pixel_x, rows[i].pixel_y>> : i \in kept}
        group == [p \in allPix |->
                    {i \in kept : <<rows[i].pixel_x, rows[i].pixel_y>> = p}]
        bigPix == {p \in allPix : CountMask(Cardinality(group[p]))}
    IN [p \in bigPix |-> group[p]]

\* returns the pixels of newPixelValue, those left in orderPixelTable, and
\* the place-holder images after the fitted pixels were added
ConvertAndFit(o, arr, wl, sm) ==
    LET rows == [i \in DOMAIN arr |-> SampleRow(o, arr[i])]
        group == PixelGroups(rows)
        first == [p \in DOMAIN group |-> FirstOf(rows, group[p])]
        newPix == {p \in DOMAIN group :
                      CloseEnough(rows[first[p]].residual_xy2)}
        remPix == (DOMAIN group) \ newPix
        \* data[yy, xx] with yy, xx inside the array (no IndexError)
        hit(q) == <<q[2], q[1]>> \in newPix
    IN [rows |-> rows, group |-> group, first |-> first,
        newPix |-> newPix, remPix |-> remPix,
        remainingCount |-> Cardinality(remPix),
        wlMap |-> [q \in Pixels |->
            IF hit(q)
            THEN CommitValue(wl[q], rows[first[<<q[2], q[1]>>]].wavelength)
            ELSE wl[q]],
        slitMap |-> [q \in Pixels |->
            IF hit(q)
            THEN CommitValue(sm[q],
                             rows[first[<<q[2], q[1]>>]].slit_position)
            ELSE sm[q]]]

(***************************************************************************)
(* The refinement of order_to_image                                        *)
(***************************************************************************)
\* the zoom grid of one remaining pixel, <<>> when a ratio is not finite
ZoomGrid(rows, g, f, p) ==
    LET n == Cardinality(g)
        fx == [i \in g |-> rows[i].fit_x]
        fy == [i \in g |-> rows[i].fit_y]
        w == [i \in g |-> rows[i].wavelength]
        s == [i \in g |-> rows[i].slit_position]
        \* n * mean_offset_x, n * mean_offset_y
        mox == SumF(fx, g) - n * (p[1] * PX + HalfPx)
        moy == SumF(fy, g) - n * (p[2] * PX + HalfPx)
        useMean == Sq(mox) + Sq(moy) <= Sq(n) * rows[f].residual_xy2
        guess_wavelength == IF useMean THEN SumF(w, g) \div n
                            ELSE rows[f].wavelength
        guess_slit_position == IF useMean THEN SumF(s, g) \div n
                               ELSE rows[f].slit_position
        \* best_offset as a fraction num / den
        den == IF useMean THEN n ELSE 1
        box == IF useMean THEN Abs(mox) ELSE Abs(rows[f].residual_x)
        boy == IF useMean THEN Abs(moy) ELSE Abs(rows[f].residual_y)
        boB == IF axisB = "x" THEN box ELSE boy
        boA == IF axisA = "x" THEN box ELSE boy
        varB == IF axisB = "x" THEN VarNum(fx, g) ELSE VarNum(fy, g)
        varA == IF axisA = "x" THEN VarNum(fx, g) ELSE VarNum(fy, g)
        \* std * offset_std_ratio, with std floored at threshold / 100
        half(varV, bo, varF) ==
            IF varV * 10000 <= Sq(threshold) * n * (n - 1)
            THEN ISqrt((Sq(threshold) * 4 * Sq(bo) * n * (n - 1))
                        \div (10000 * Sq(den) * varF))
            ELSE ISqrt((4 * Sq(bo) * varV) \div (Sq(den) * varF))
        hw == half(VarNum(w, g), boB, varB)
        hs == half(VarNum(s, g), boA, varA)
        stepW == (2 * hw) \div (GridSize - 1)
        stepS == (2 * hs) \div (GridSize - 1)
    IN IF varB = 0 \/ varA = 0 THEN <<>>
       ELSE [t \in 1..(GridSize * GridSize) |->
               [wavelength |-> guess_wavelength - hw
                                + ((t - 1) \div GridSize) * stepW,
                slit_position |-> guess_slit_position - hs
                                + ((t - 1) % GridSize) * stepS]]

\* the groups in the order of groupby(['pixel_x', 'pixel_y', 'order'])
RECURSIVE SortPixels(_)
SortPixels(S) ==
    IF S = {} THEN <<>>
    ELSE LET m == CHOOSE p \in S : \A q \in S :
                      p[1] < q[1] \/ (p[1] = q[1] /\ p[2] <= q[2])
         IN <<m>> \o SortPixels(S \ {m})

RECURSIVE ConcatGrids(_, _)
ConcatGrids(cf, ps) ==
    IF ps = <<>> THEN <<>>
    ELSE ZoomGrid(cf.rows, cf.group[Head(ps)], cf.first[Head(ps)], Head(ps))
            \o ConcatGrids(cf, Tail(ps))

\* bigWlArray and bigSlitArray of the next iteration
Refine(cf) == ConcatGrids(cf, SortPixels(cf.remPix))

CountNaN(img) == Cardinality({p \in Pixels : IsNaN(img[p])})

(***************************************************************************)
(* order_to_image: one work unit per order                                 *)
(***************************************************************************)
\* while remainingPixels and remainingCount and iteration < iterationLimit
LoopCondNoLimit(o) == remainingPixels[o] # 0 /\ remainingCount[o] # 0

LoopCond(o) ==
    /\ remainingPixels[o] # 0
    /\ remainingCount[o] # 0
    /\ iteration[o] < iterationLimit

\* order_to_image from its place-holders to its return, as one function
RECURSIVE OrderToImage(_, _, _, _, _, _, _)
OrderToImage(o, arr, wl, sm, it, count, pixels) ==
    IF ~(pixels # 0 /\ count # 0 /\ it < iterationLimit)
    THEN [wlMap |-> wl, slitMap |-> sm]
    ELSE LET cf == ConvertAndFit(o, arr, wl, sm)
         IN IF cf.remainingCount = 0
            THEN OrderToImage(o, arr, cf.wlMap, cf.slitMap, it + 1, 0, pixels)
            ELSE OrderToImage(o, Refine(cf), cf.wlMap, cf.slitMap, it + 1,
                              cf.remainingCount, CountNaN(cf.wlMap))

rasterInputs == <<axisA, threshold, gridRes, dispMap, orderTable>>

OrderStart(o) ==
    /\ UNCHANGED <<driverVars, fitVars>>
    /\ rpc = "running"
    /\ opc[o] = "pending"
    /\ ValidCoords(o) # {}
    /\ opc' = [opc EXCEPT ![o] = "loop"]
    /\ wlMap' = [wlMap EXCEPT ![o] = Placeholder(o)]
    /\ slitMap' = [slitMap EXCEPT ![o] = Placeholder(o)]
    /\ bigArray' = [bigArray EXCEPT ![o] = InitialGrid(o)]
    /\ iteration' = [iteration EXCEPT ![o] = 0]
    /\ remainingCount' = [remainingCount EXCEPT ![o] = 1]
    /\ remainingPixels' = [remainingPixels EXCEPT ![o] = 1]
    /\ UNCHANGED <<rpc, rasterInputs, newPixels, combinedWlImage,
                   combinedSlitImage, orderImage>>

\* zip(*[]) of create_placeholder_images raises when no row of the order
\* table passes the filter
OrderRaise(o) ==
    /\ UNCHANGED <<driverVars, fitVars>>
    /\ rpc = "running"
    /\ opc[o] = "pending"
    /\ ValidCoords(o) = {}
    /\ opc' = [opc EXCEPT ![o] = "raised"]
    /\ UNCHANGED <<rpc, rasterInputs, wlMap, slitMap, bigArray, iteration,
                   remainingCount, remainingPixels, newPixels,
                   combinedWlImage, combinedSlitImage, orderImage>>

OrderIterate(o) ==
    /\ UNCHANGED <<driverVars, fitVars>>
    /\ rpc = "running"
    /\ opc[o] = "loop"
    /\ LoopCond(o)
    /\ LET cf == ConvertAndFit(o, bigArray[o], wlMap[o], slitMap[o])
       IN /\ iteration' = [iteration EXCEPT ![o] = @ + 1]
          /\ remainingCount' = [remainingCount EXCEPT ![o] = cf.remainingCount]
          /\ newPixels' = [newPixels EXCEPT ![o] = cf.newPix]
          /\ wlMap' = [wlMap EXCEPT ![o] = cf.wlMap]
          /\ slitMap' = [slitMap EXCEPT ![o] = cf.slitMap]
          /\ IF cf.remainingCount = 0
             THEN UNCHANGED <<bigArray, remainingPixels>>
             ELSE /\ bigArray' = [bigArray EXCEPT ![o] = Refine(cf)]
                  /\ remainingPixels' =
                        [remainingPixels EXCEPT ![o] = CountNaN(cf.wlMap)]
    /\ UNCHANGED <<rpc, rasterInputs, opc, combinedWlImage,
                   combinedSlitImage, orderImage>>

\* the work unit is still running when the timeout=3600 handed to
\* fmultiprocess expires
OrderTimeout(o) ==
    /\ UNCHANGED <<driverVars, fitVars>>
    /\ rpc = "running"
    /\ opc[o] = "loop"
    /\ opc' = [opc EXCEPT ![o] = "timeout"]
    /\ UNCHANGED <<rpc, rasterInputs, wlMap, slitMap, bigArray, iteration,
                   remainingCount, remainingPixels, newPixels,
                   combinedWlImage, combinedSlitImage, orderImage>>

OrderReturn(o) ==
    /\ UNCHANGED <<driverVars, fitVars>>
    /\ rpc = "running"
    /\ opc[o] = "loop"
    /\ ~LoopCond(o)
    /\ opc' = [opc EXCEPT ![o] = "returned"]
    /\ UNCHANGED <<rpc, rasterInputs, wlMap, slitMap, bigArray, iteration,
                   remainingCount, remainingPixels, newPixels,
                   combinedWlImage, combinedSlitImage, orderImage>>

(***************************************************************************)
(* map_to_image                                                            *)
(***************************************************************************)
\* Combiner(images).sum_combine() at one pixel.  ccdproc sums with nansum
\* from release 2.2 on (nanSum) and with a NaN-propagating sum before.
RECURSIVE SumCombineAt(_, _, _, _)
SumCombineAt(images, p, o, nanSum) ==
    IF o = 0 THEN 0
    ELSE LET rest == SumCombineAt(images, p, o - 1, nanSum)
             v == images[o][p]
         IN IF IsNaN(v) THEN (IF nanSum THEN rest ELSE NaN)
            ELSE IF IsNaN(rest) THEN NaN ELSE rest + v

\* the image of the last result in place of the sum of all
SumCombineLast(images, nanSum) == [p \in Pixels |-> images[NumOrders][p]]

SumCombine(images, nanSum) ==
    [p \in Pixels |-> SumCombineAt(images, p, NumOrders, nanSum)]

\* combined.data += wlMap.data
AddImageNone(img, placeholder) == img

AddImage(img, placeholder) ==
    [p \in Pixels |-> IF IsNaN(img[p]) \/ IsNaN(placeholder[p]) THEN NaN
                      ELSE img[p] + placeholder[p]]

MapToImageStart ==
    /\ UNCHANGED <<driverVars, fitVars>>
    /\ rpc = "idle"
    /\ rpc' = "running"
    /\ UNCHANGED <<rasterInputs, opc, wlMap, slitMap, bigArray, iteration,
                   remainingCount, remainingPixels, newPixels,
                   combinedWlImage, combinedSlitImage, orderImage>>

\* results = fmultiprocess(...): the call returns the list of results once
\* every work unit has returned
ResultsReadyAnyway ==
    \A o \in Orders : opc[o] \in {"returned", "raised", "timeout"}

ResultsReady == \A o \in Orders : opc[o] = "returned"

MapToImageWrite ==
    /\ UNCHANGED <<driverVars, fitVars>>
    /\ rpc = "running"
    /\ ResultsReady
    /\ rpc' = "written"
    /\ \E nanSum \in BOOLEAN :
          /\ combinedWlImage' =
                AddImage(SumCombine(wlMap, nanSum), PlaceholderReverse)
          /\ combinedSlitImage' =
                AddImage(SumCombine(slitMap, nanSum), PlaceholderReverse)
    /\ orderImage' = OrderMapReverse
    /\ UNCHANGED <<rasterInputs, opc, wlMap, slitMap, bigArray, iteration,
                   remainingCount, remainingPixels, newPixels>>

\* the exception of a work unit, or the expired timeout, surfaces from
\* fmultiprocess; map_to_image has no handler
MapToImageRaise ==
    /\ UNCHANGED <<driverVars, fitVars>>
    /\ rpc = "running"
    /\ \E o \in Orders : opc[o] \in {"raised", "timeout"}
    /\ rpc' = "raised"
    /\ UNCHANGED <<rasterInputs, opc, wlMap, slitMap, bigArray, iteration,
                   remainingCount, remainingPixels, newPixels,
                   combinedWlImage, combinedSlitImage, orderImage>>

BlankImage == [p \in Pixels |-> NaN]

\* get() has fitted and written the map and calls map_to_image: the
\* rasteriser reads none of the driver's state but the map file
CalledFromGet ==
    /\ pc = "map_to_image"
    /\ dprTech = "ECHELLE,MULTI-PINHOLE"
    /\ frameHeader = FullHeader(dprTech)
    /\ firstGuessMap = [given |-> TRUE, dx |-> 0, dy |-> 0, ds |-> 0]
    /\ orderTablePath = TRUE
    /\ predictedLines = [single |-> <<>>, multi |-> <<>>]
    /\ recipeSettings = <<>>
    /\ orderPixelTable = <<>>
    /\ totalLines = 0
    /\ qc = <<>>
    /\ raised = "none"
    /\ slitDeg = 1
    /\ clippedCount = 0
    /\ clipIteration = 0
    /\ xcoeff = {}
    /\ ycoeff = {}
    /\ resPlot = TRUE
    /\ mapFile = <<>>
    /\ NoRecipe

\* the place-holder state of the rasteriser before map_to_image is called
RasterBlank ==
    /\ rpc = "idle"
    /\ opc = [o \in Orders |-> "pending"]
    /\ wlMap = [o \in Orders |-> BlankImage]
    /\ slitMap = [o \in Orders |-> BlankImage]
    /\ bigArray = [o \in Orders |-> <<>>]
    /\ iteration = [o \in Orders |-> 0]
    /\ remainingCount = [o \in Orders |-> 1]
    /\ remainingPixels = [o \in Orders |-> 1]
    /\ newPixels = [o \in Orders |-> {}]
    /\ combinedWlImage = BlankImage
    /\ combinedSlitImage = BlankImage
    /\ orderImage = BlankImage

InitRaster ==
    /\ CalledFromGet
    /\ axisA \in {"x", "y"}
    /\ threshold \in {1, 2, 6}
    /\ gridRes \in {[wavelength |-> 2, slit |-> 2]}
    /\ dispMap \in DispMaps
    /\ orderTable \in OrderTables
    /\ RasterBlank

NextRaster ==
    \/ MapToImageStart
    \/ \E o \in Orders : OrderStart(o)
    \/ \E o \in Orders : OrderRaise(o)
    \/ \E o \in Orders : OrderIterate(o)
    \/ \E o \in Orders : OrderTimeout(o)
    \/ \E o \in Orders : OrderReturn(o)
    \/ MapToImageWrite
    \/ MapToImageRaise

SpecRaster == InitRaster /\ [][NextRaster]_vars

(***************************************************************************)
(* Properties of the rasteriser                                            *)
(***************************************************************************)
\* the forward map at (o, w, s) falls in pixel p = <<y, x>>, closer to its
\* centre than the displacement threshold
Agrees(o, p, w, s) ==
    LET fx == FitX(o, w, s)
        fy == FitY(o, w, s)
    IN /\ Floor(fx) = p[2]
       /\ Floor(fy) = p[1]
       /\ Sq(fx - (p[2] * PX + HalfPx)) + Sq(fy - (p[1] * PX + HalfPx))
             < Sq(threshold)

Assigned(o, p) == p \in InTrace(o) /\ ~IsNaN(wlMap[o][p])

\* C1: while an order is rasterised, a pixel of its wavelength and slit
\* images that holds a committed value keeps that value in every later
\* iteration: a commit only fills a pixel that is still NaN.
C1_AssignedIsTerminal ==
    [][\A o \in Orders : \A p \in Pixels :
          (opc[o] # "pending" /\ Assigned(o, p))
             => /\ wlMap'[o][p] = wlMap[o][p]
                /\ slitMap'[o][p] = slitMap[o][p]]_vars

\* an iteration is about to run whose newPixelValue holds a pixel assigned
\* by an earlier iteration, with another wavelength or slit position
C1_Witness ==
    \E o \in Orders :
        /\ opc[o] = "loop" /\ LoopCond(o) /\ iteration[o] >= 1
        /\ LET cf == ConvertAndFit(o, bigArray[o], wlMap[o], slitMap[o])
           IN \E q \in cf.newPix :
                 /\ <<q[2], q[1]>> \in Pixels
                 /\ Assigned(o, <<q[2], q[1]>>)
                 /\ \/ cf.rows[cf.first[q]].wavelength
                          # wlMap[o][<<q[2], q[1]>>]
                    \/ cf.rows[cf.first[q]].slit_position
                          # slitMap[o][<<q[2], q[1]>>]

\* C2: in the raster written by map_to_image every assigned pixel <<y, x>>
\* agrees with the forward map: evaluated at (ORDER, W, S) of the pixel it
\* gives a position inside the pixel, closer to its centre than the
\* threshold.
C2_InverseAgreement ==
    rpc = "written" =>
        \A p \in Pixels :
            ~IsNaN(combinedWlImage[p]) =>
                /\ ~IsNaN(orderImage[p])
                /\ ~IsNaN(combinedSlitImage[p])
                /\ Agrees(orderImage[p], p, combinedWlImage[p],
                          combinedSlitImage[p])

\* C2 at the commit: every assigned pixel of the images of one order holds
\* the wavelength and slit position of a sample that the forward map of
\* that order puts inside the pixel, closer to its centre than the
\* threshold.
C2_CommitAgreement ==
    \A o \in Orders : \A p \in Pixels :
        (opc[o] # "pending" /\ Assigned(o, p))
            => /\ ~IsNaN(slitMap[o][p])
               /\ Agrees(o, p, wlMap[o][p], slitMap[o][p])

\* C3 as claimed: in the written raster the wavelength, slit and order
\* images have the same NaN pixels.
C3_NaNSymmetry ==
    rpc = "written" =>
        \A p \in Pixels :
            /\ IsNaN(combinedWlImage[p]) <=> IsNaN(combinedSlitImage[p])
            /\ IsNaN(combinedSlitImage[p]) <=> IsNaN(orderImage[p])

\* C3: in the written raster the wavelength and the slit image have the
\* same NaN pixels, and a pixel that is NaN in the order image (outside
\* every trace) is NaN in both; a pixel inside a trace that was never
\* assigned has its order number in the order image all the same.
C3_NaNSupport ==
    rpc = "written" =>
        \A p \in Pixels :
            /\ IsNaN(combinedWlImage[p]) <=> IsNaN(combinedSlitImage[p])
            /\ IsNaN(orderImage[p]) => IsNaN(combinedWlImage[p])
            /\ IsNaN(orderImage[p]) <=> LastOrderAt(p, NumOrders) = 0

\* a raster was written with a pixel inside a trace that no iteration
\* assigned, beside another pixel that was assigned
C3_Witness ==
    /\ rpc = "written"
    /\ \E p \in Pixels :
          /\ ~IsNaN(orderImage[p])
          /\ \A o \in Orders : p \in InTrace(o) => IsNaN(wlMap[o][p])
    /\ \E p \in Pixels, o \in Orders : Assigned(o, p)

\* C4 as claimed: an iteration that newly constrains no pixel is the last
\* one of its order, and an iteration below the limit that does constrain
\* one is not.
C4_StopsWhenNothingNew ==
    [][\A o \in Orders :
          (opc[o] = "loop" /\ iteration'[o] = iteration[o] + 1)
             => ((wlMap'[o] = wlMap[o]) <=>
                    (LoopCond(o)' => iteration'[o] >= iterationLimit))]_vars

\* C4: the loop of an order ends exactly when no sampled pixel is left
\* unconstrained (remainingCount = 0), when no pixel of the order's image
\* is NaN any more (remainingPixels = 0) or after iterationLimit
\* iterations; it never runs more than iterationLimit iterations, and once
\* it has ended the images of the order, with their NaN pixels, stay as
\* they are.
C4_LoopStop ==
    [][\A o \in Orders :
          /\ iteration'[o] <= iterationLimit
          /\ (opc[o] = "loop" /\ opc'[o] = "returned")
                => \/ remainingCount[o] = 0
                   \/ remainingPixels[o] = 0
                   \/ iteration[o] = iterationLimit
          /\ (opc[o] = "loop" /\ iteration'[o] # iteration[o])
                => /\ remainingCount[o] # 0 /\ remainingPixels[o] # 0
                   /\ iteration[o] < iterationLimit
          /\ opc[o] = "returned"
                => wlMap'[o] = wlMap[o] /\ slitMap'[o] = slitMap[o]]_vars

\* an order returned at the iteration limit with sampled pixels still
\* unconstrained and NaN pixels left in its image
C4_Witness ==
    \E o \in Orders :
        /\ opc[o] = "returned"
        /\ iteration[o] = iterationLimit
        /\ remainingCount[o] # 0
        /\ remainingPixels[o] # 0
        /\ \E p \in InTrace(o) : IsNaN(wlMap[o][p])

(***************************************************************************)
(* The line table of get() and fit_polynomials                             *)
(*                                                                         *)
(* Observed and predicted positions are integers in units of 1/Scale       *)
(* pixel, where Scale is a multiple of every row count up to MaxRows, so   *)
(* that the mean of up to MaxRows positions is again an integer.  The      *)
(* clipping sigma is held in units of 1/KDen.                              *)
(***************************************************************************)
MaxRows == 4         \* rows of a predicted-line catalogue
MaxClipLimit == 2    \* largest poly-clipping-iteration-limit
KDen == 2            \* units of the clipping sigma

RECURSIVE Gcd(_, _)
Gcd(a, b) == IF b = 0 THEN a ELSE Gcd(b, a % b)

RECURSIVE LcmUpTo(_)
LcmUpTo(n) ==
    IF n <= 1 THEN 1
    ELSE LET l == LcmUpTo(n - 1) IN (l * n) \div Gcd(l, n)

Scale == LcmUpTo(MaxRows)

\* the detector parameters read by get_predicted_line_list
detectorParams == [mid_slit_index |-> 1]

\* a row of the predicted-line catalogue; the columns the later steps add
\* are NaN until they are filled
Line(order, wavelength, slit_index, x, y) ==
    [order |-> order, wavelength |-> wavelength, slit_index |-> slit_index,
     slit_position |-> slit_index - detectorParams.mid_slit_index,
     detector_x |-> x, detector_y |-> y,
     observed_x |-> NaN, observed_y |-> NaN,
     fit_x |-> NaN, fit_y |-> NaN,
     residuals_x |-> NaN, residuals_y |-> NaN, residuals_xy |-> NaN]

Rows(table) == DOMAIN table

\* the sequence <<f[1], ..., f[n]>>
RECURSIVE Tabulate(_, _)
Tabulate(f, n) == IF n = 0 THEN <<>> ELSE Append(Tabulate(f, n - 1), f[n])

Column(table, col) ==
    Tabulate([i \in Rows(table) |-> table[i][col]], Len(table))

(***************************************************************************)
(* The polynomial and its least-squares fit                                *)
(*                                                                         *)
(* The settings of the model keep every degree at 0 or 1 and the table     *)
(* holds at most two distinct orders and two distinct slit positions, so   *)
(* the terms of the polynomial tell two rows apart exactly when the rows   *)
(* differ in a column whose degree is 1.  The least-squares polynomial     *)
(* then takes, on every such cell of rows, the mean of the cell's observed *)
(* positions; a coefficient vector is held as the values of its polynomial *)
(* on the cells.  A column of degree 0 enters as column.pow(0), which is 1 *)
(* for every value of the column, NaN included.                            *)
(***************************************************************************)
orderDeg == recipeSettings["order-deg"]

wavelengthDeg == recipeSettings["wavelength-deg"]

clippingSigma == recipeSettings["poly-fitting-residual-clipping-sigma"]

clippingIterationLimit == recipeSettings["poly-clipping-iteration-limit"]

\* the length of p0 handed to curve_fit
NCoeff == (orderDeg + 1) * (wavelengthDeg + 1) * (slitDeg + 1)

CellOf(row) ==
    <<IF orderDeg > 0 THEN row.order ELSE 0,
      IF wavelengthDeg > 0 THEN row.wavelength ELSE 0,
      IF slitDeg > 0 THEN row.slit_position ELSE 0>>

CellRows(table, cell) == {i \in Rows(table) : CellOf(table[i]) = cell}

\* scipy's curve_fit on the table: the exception it raises, "none" if it fits
\* a curve_fit that takes any table
CurveFitErrorNone(table) == "none"

CurveFitError(table) ==
    IF \E i \in Rows(table) :
           IsNaN(table[i].observed_x) \/ IsNaN(table[i].observed_y)
    THEN "ValueError"
    ELSE IF Len(table) = 0 THEN "ValueError"
    ELSE IF Len(table) < NCoeff THEN "TypeError"
    ELSE "none"

CurveFit(table, col) ==
    {<<cell, SumF(Column(table, col), CellRows(table, cell))
                 \div Cardinality(CellRows(table, cell))>> :
        cell \in {CellOf(table[i]) : i \in Rows(table)}}

Poly(row, coeff) == (CHOOSE c \in coeff : c[1] = CellOf(row))[2]

ResidualsRow(row, xc, yc) ==
    LET fx == Poly(row, xc)
        fy == Poly(row, yc)
        rx == fx - row.observed_x
        ry == fy - row.observed_y
    IN [row EXCEPT !.fit_x = fx, !.fit_y = fy,
                   !.residuals_x = rx, !.residuals_y = ry,
                   !.residuals_xy = ISqrt(Sq(rx) + Sq(ry))]

ColMin(f, S) ==
    IF S = {} THEN NaN ELSE f[CHOOSE i \in S : \A j \in S : f[i] <= f[j]]

ColMax(f, S) ==
    IF S = {} THEN NaN ELSE f[CHOOSE i \in S : \A j \in S : f[i] >= f[j]]

\* pandas' Series.std(): the sample standard deviation, NaN below two rows
ColStd(f, S) ==
    LET n == Cardinality(S)
    IN IF n < 2 THEN NaN ELSE ISqrt(VarNum(f, S) \div (n * (n - 1)))

QC(name, value) == [qc_name |-> name, qc_value |-> value]

\* a calculate_residuals that writes no QC
ResidualQCsNone(table) == <<>>

ResidualQCs(table) ==
    LET S == Rows(table)
        absx == [i \in S |-> Abs(table[i].residuals_x)]
        absy == [i \in S |-> Abs(table[i].residuals_y)]
        rxy == Column(table, "residuals_xy")
    IN << QC("XRESMIN", ColMin(absx, S)), QC("XRESMAX", ColMax(absx, S)),
          QC("XRESRMS", ColStd(absx, S)),
          QC("YRESMIN", ColMin(absy, S)), QC("YRESMAX", ColMax(absy, S)),
          QC("YRESRMS", ColStd(absy, S)),
          QC("XYRESMIN", ColMin(rxy, S)), QC("XYRESMAX", ColMax(rxy, S)),
          QC("XYRESRMS", ColStd(rxy, S)) >>

CalculateResiduals(table, xc, yc) ==
    Tabulate([i \in Rows(table) |-> ResidualsRow(table[i], xc, yc)],
             Len(table))

(***************************************************************************)
(* sigma_clip(residuals_xy, sigma_lower = sigma_upper = clippingSigma,     *)
(*            maxiters = 1, cenfunc = 'median', stdfunc = 'mad_std')       *)
(***************************************************************************)
RECURSIVE Insert(_, _)
Insert(v, s) ==
    IF s = <<>> THEN <<v>>
    ELSE IF v <= Head(s) THEN <<v>> \o s
    ELSE <<Head(s)>> \o Insert(v, Tail(s))

RECURSIVE Sort(_)
Sort(s) == IF s = <<>> THEN <<>> ELSE Insert(Head(s), Sort(Tail(s)))

\* twice the median of a non-empty sequence of values
Median2(values) ==
    LET s == Sort(values)
        n == Len(s)
    IN IF n % 2 = 1 THEN 2 * s[(n + 1) \div 2]
                    ELSE s[n \div 2] + s[n \div 2 + 1]

\* mad_std is the median absolute deviation times 1.4826
MadStd == [num |-> 14826, den |-> 10000]

\* twice the distance of each value from the median
Deviation2(values) ==
    LET med2 == Median2(values)
    IN Tabulate([i \in DOMAIN values |-> Abs(2 * values[i] - med2)],
                Len(values))

ClippedOutsideNever(dev2, mad4) == FALSE

\* is a value at twice-distance dev2 from the median outside
\* median +/- clippingSigma * mad_std, with mad4 four times the MAD
ClippedOutside(dev2, mad4) ==
    2 * dev2 * KDen * MadStd.den > clippingSigma * MadStd.num * mad4

SigmaClipMask(table) ==
    LET dev2 == Deviation2(Column(table, "residuals_xy"))
        mad4 == Median2(dev2)
    IN Tabulate([i \in Rows(table) |-> ClippedOutside(dev2[i], mad4)],
                Len(table))

DropKeepAll(table, mask) == table

\* orderPixelTable.drop(index = the masked rows)
DropMasked(table, mask) ==
    LET Kept(i) == ~mask[i]
        idx == SelectSeq([i \in Rows(table) |-> i], Kept)
    IN [j \in 1..Len(idx) |-> table[idx[j]]]

(***************************************************************************)
(* fit_polynomials                                                         *)
(***************************************************************************)
FitLoopCondNoLimit == clippedCount > 0

FitLoopCond == clippedCount > 0 /\ clipIteration < clippingIterationLimit

fitInputs == <<dprTech, frameHeader, firstGuessMap, orderTablePath, predictedLines,
               recipeSettings, totalLines, slitDeg, recipeVars>>

\* one pass of the loop: fit x, fit y, residuals, sigma-clip, drop
FitIteration ==
    /\ pc = "fit"
    /\ FitLoopCond
    /\ CurveFitError(orderPixelTable) = "none"
    /\ LET xc == CurveFit(orderPixelTable, "observed_x")
           yc == CurveFit(orderPixelTable, "observed_y")
           res == CalculateResiduals(orderPixelTable, xc, yc)
           mask == SigmaClipMask(res)
       IN /\ xcoeff' = xc
          /\ ycoeff' = yc
          /\ clippedCount' = Cardinality({i \in Rows(res) : mask[i]})
          /\ orderPixelTable' = DropMasked(res, mask)
    /\ clipIteration' = clipIteration + 1
    /\ UNCHANGED <<pc, qc, raised, resPlot, mapFile, fitInputs, rasterVars>>

\* curve_fit raises inside the loop
FitRaise ==
    /\ pc = "fit"
    /\ FitLoopCond
    /\ CurveFitError(orderPixelTable) # "none"
    /\ clipIteration' = clipIteration + 1
    /\ pc' = "raised"
    /\ raised' = CurveFitError(orderPixelTable)
    /\ UNCHANGED <<orderPixelTable, qc, clippedCount, xcoeff, ycoeff,
                   resPlot, mapFile, fitInputs, rasterVars>>

\* the loop is over: the final residuals with the coefficients of the last
\* fit, the nine residual QCs, the residual plot
FitReturn ==
    /\ pc = "fit"
    /\ ~FitLoopCond
    /\ xcoeff # {}
    /\ orderPixelTable' = CalculateResiduals(orderPixelTable, xcoeff, ycoeff)
    /\ qc' = qc \o ResidualQCs(orderPixelTable')
    /\ resPlot' = TRUE
    /\ pc' = "fitted"
    /\ UNCHANGED <<raised, clippedCount, clipIteration, xcoeff, ycoeff,
                   mapFile, fitInputs, rasterVars>>

\* the loop never ran: xcoeff and ycoeff are unbound at the final
\* calculate_residuals
FitReturnRaise ==
    /\ pc = "fit"
    /\ ~FitLoopCond
    /\ xcoeff = {}
    /\ pc' = "raised"
    /\ raised' = "UnboundLocalError"
    /\ UNCHANGED <<orderPixelTable, qc, clippedCount, clipIteration, xcoeff,
                   ycoeff, resPlot, mapFile, fitInputs, rasterVars>>

(***************************************************************************)
(* write_map_to_file                                                       *)
(***************************************************************************)
\* a FITS header card takes no NaN value
HeaderError == \E i \in DOMAIN qc : IsNaN(qc[i].qc_value)

\* header.pop(key) raises KeyError on a header without the key
MissingDpr == ~(DprKeys \subseteq DOMAIN frameHeader)

\* f"DISP_TAB_{arm}".upper()
ProCatg(arm) == CASE arm = "NIR" -> "DISP_TAB_NIR"
                  [] arm = "VIS" -> "DISP_TAB_VIS"

\* a header that keeps the amplifier keywords
CleanHeaderKeepAmplifier(header, sd) ==
    [t \in (DOMAIN header \ DprKeys)
            \cup {"PRO_TECH", "SEQ_ARM", "PRO_TYPE", "PRO_CATG"} |->
        CASE t = "PRO_TECH" -> IF sd = 0 THEN "ECHELLE,PINHOLE"
                                         ELSE "ECHELLE,MULTI-PINHOLE"
          [] t = "SEQ_ARM" -> header["SEQ_ARM"]
          [] t = "PRO_TYPE" -> "REDUCED"
          [] t = "PRO_CATG" -> ProCatg(header["SEQ_ARM"])
          [] OTHER -> header[t]]

\* the copy of the frame header after the pops and the PRO keywords
CleanHeader(header, sd) ==
    [t \in (DOMAIN header \ (DprKeys \cup AmplifierKeys))
            \cup {"PRO_TECH", "SEQ_ARM", "PRO_TYPE", "PRO_CATG"} |->
        CASE t = "PRO_TECH" -> IF sd = 0 THEN "ECHELLE,PINHOLE"
                                         ELSE "ECHELLE,MULTI-PINHOLE"
          [] t = "SEQ_ARM" -> header["SEQ_ARM"]
          [] t = "PRO_TYPE" -> "REDUCED"
          [] t = "PRO_CATG" -> ProCatg(header["SEQ_ARM"])
          [] OTHER -> header[t]]

WriteMapToFile ==
    /\ pc = "fitted"
    /\ ~MissingDpr
    /\ ~HeaderError
    /\ mapFile' = << [xcoeff |-> xcoeff, ycoeff |-> ycoeff,
                      order_deg |-> orderDeg,
                      wavelength_deg |-> wavelengthDeg,
                      slit_deg |-> slitDeg,
                      pro_tech |-> IF slitDeg = 0
                                   THEN "ECHELLE,PINHOLE"
                                   ELSE "ECHELLE,MULTI-PINHOLE",
                      header |-> CleanHeader(frameHeader, slitDeg),
                      qc |-> qc] >>
    /\ pc' = "written"
    /\ UNCHANGED <<orderPixelTable, qc, raised, clippedCount, clipIteration,
                   xcoeff, ycoeff, resPlot, fitInputs, rasterVars>>

WriteMapToFileRaise ==
    /\ pc = "fitted"
    /\ ~MissingDpr
    /\ HeaderError
    /\ pc' = "raised"
    /\ raised' = "ValueError"
    /\ UNCHANGED <<orderPixelTable, qc, clippedCount, clipIteration, xcoeff,
                   ycoeff, resPlot, mapFile, fitInputs, rasterVars>>

\* one of DPR TECH, DPR CATG, DPR TYPE is not in the frame header
WriteMapToFileKeyError ==
    /\ pc = "fitted"
    /\ MissingDpr
    /\ pc' = "raised"
    /\ raised' = "KeyError"
    /\ UNCHANGED <<orderPixelTable, qc, clippedCount, clipIteration, xcoeff,
                   ycoeff, resPlot, mapFile, fitInputs, rasterVars>>

(***************************************************************************)
(* The fitter on its own: every table of detected lines of up to MaxRows   *)
(* rows, in a canonical row order                                          *)
(***************************************************************************)
\* observed positions, in pixels
ObservedAt == {<<0, 0>>, <<1, 0>>, <<5, 0>>, <<5, 8>>}

Detected(line, ox, oy) ==
    [line EXCEPT !.observed_x = ox, !.observed_y = oy]

\* the pinholes seen: both pinholes of order 1, the mid pinhole of order 2
Pinholes == {<<1, 0>>, <<1, 1>>, <<2, 0>>}

DetectedLines ==
    {Detected(Line(h[1], WaveLengthMin(h[1]),
                   detectorParams.mid_slit_index + h[2],
                   Scale * p[1], Scale * p[2]),
              Scale * p[1], Scale * p[2]) :
        h \in Pinholes, p \in ObservedAt}

RowKey(row) ==
    <<row.order, row.slit_index, row.observed_x, row.observed_y>>

KeyLeq(a, b) ==
    \/ a[1] < b[1]
    \/ a[1] = b[1] /\ a[2] < b[2]
    \/ a[1] = b[1] /\ a[2] = b[2] /\ a[3] < b[3]
    \/ a[1] = b[1] /\ a[2] = b[2] /\ a[3] = b[3] /\ a[4] <= b[4]

\* the tables of exactly n rows, rows in key order
RECURSIVE TablesOf(_)
TablesOf(n) ==
    IF n = 0 THEN {<<>>}
    ELSE LET shorter == TablesOf(n - 1)
         IN UNION {{Append(t, r) :
                       r \in {q \in DetectedLines :
                                 n = 1 \/ KeyLeq(RowKey(t[n - 1]), RowKey(q))}} :
                   t \in shorter}

DetectedTables == UNION {TablesOf(n) : n \in 0..MaxRows}

Settings(ods, ks, limits) ==
    {("order-deg" :> od) @@ ("wavelength-deg" :> 0) @@ ("slit-deg" :> 1)
       @@ ("poly-fitting-residual-clipping-sigma" :> k)
       @@ ("poly-clipping-iteration-limit" :> l) :
        od \in ods, k \in ks, l \in limits}

RasterNotCalled ==
    /\ axisA = "y"
    /\ threshold = 1
    /\ gridRes = [wavelength |-> 2, slit |-> 2]
    /\ dispMap = CHOOSE m \in DispMaps : TRUE
    /\ orderTable = CHOOSE t \in OrderTables : TRUE
    /\ RasterBlank

InitFit ==
    /\ pc = "fit"
    /\ dprTech = "ECHELLE,MULTI-PINHOLE"
    /\ frameHeader = FullHeader(dprTech)
    /\ firstGuessMap = [given |-> TRUE, dx |-> 0, dy |-> 0, ds |-> 0]
    /\ orderTablePath = FALSE
    /\ predictedLines = [single |-> <<>>, multi |-> <<>>]
    /\ recipeSettings \in Settings({0, 1}, {1, 3 * KDen}, 0..MaxClipLimit)
    /\ slitDeg \in {0, 1}
    /\ orderPixelTable \in DetectedTables
    /\ totalLines = Len(orderPixelTable)
    /\ qc = <<>>
    /\ raised = "none"
    /\ clippedCount = 1
    /\ clipIteration = 0
    /\ xcoeff = {}
    /\ ycoeff = {}
    /\ resPlot = FALSE
    /\ mapFile = <<>>
    /\ NoRecipe
    /\ RasterNotCalled

NextFit ==
    \/ FitIteration
    \/ FitRaise
    \/ FitReturn
    \/ FitReturnRaise
    \/ WriteMapToFile
    \/ WriteMapToFileRaise

SpecFit == InitFit /\ [][NextFit]_vars

(***************************************************************************)
(* get_predicted_line_list                                                 *)
(***************************************************************************)
\* frameTech that takes every frame that is not single-pinhole for a
\* multi-pinhole frame
frameTechLenient ==
    IF dprTech = "ECHELLE,PINHOLE" THEN "single" ELSE "multi"

\* the catalogue key the frame's DPR TECH selects, "none" for another value
frameTech ==
    IF dprTech = "ECHELLE,PINHOLE" THEN "single"
    ELSE IF dprTech = "ECHELLE,MULTI-PINHOLE" THEN "multi"
    ELSE "none"

IsMidSlit(row) == row.slit_index = detectorParams.mid_slit_index

\* the first-guess map evaluated on a row (dispersion_map_to_pixel_arrays):
\* it puts a line firstGuessMap.dx, dy short of the catalogue position, and
\* a further ds short per step of slit position, and gives NaN where the
\* wavelength is NaN
FirstGuessRow(row) ==
    IF IsNaN(row.wavelength) \/ IsNaN(row.order)
    THEN [row EXCEPT !.fit_x = NaN, !.fit_y = NaN]
    ELSE [row EXCEPT !.fit_x = row.detector_x - firstGuessMap.dx
                                 - firstGuessMap.ds * row.slit_position,
                     !.fit_y = row.detector_y - firstGuessMap.dy]

\* ... which keeps the rows with fit_x > 0 and fit_y > 0 only
FirstGuessPixels(table) ==
    LET OnDetector(row) == /\ ~IsNaN(row.fit_x) /\ row.fit_x > 0
                           /\ ~IsNaN(row.fit_y) /\ row.fit_y > 0
    IN SelectSeq(Tabulate([i \in Rows(table) |-> FirstGuessRow(table[i])],
                          Len(table)), OnDetector)

\* shifts taken from the rows of every slit index
ShiftListEverySlit(table) ==
    Tabulate([i \in Rows(table) |->
                 [wavelength |-> table[i].wavelength,
                  order |-> table[i].order,
                  shift_x |-> table[i].detector_x - table[i].fit_x,
                  shift_y |-> table[i].detector_y - table[i].fit_y]],
             Len(table))

\* the shifts of the mid-slit rows: wavelength, order, shift_x, shift_y
ShiftList(table) ==
    LET mid == SelectSeq(table, IsMidSlit)
    IN Tabulate([i \in Rows(mid) |->
                    [wavelength |-> mid[i].wavelength,
                     order |-> mid[i].order,
                     shift_x |-> mid[i].detector_x - mid[i].fit_x,
                     shift_y |-> mid[i].detector_y - mid[i].fit_y]],
                Len(mid))

\* a row with a merged shift: the guess moved by it, the helper columns gone
ShiftedRow(row, shift) ==
    [row EXCEPT !.detector_x = row.detector_x - shift.shift_x,
                !.detector_y = row.detector_y - shift.shift_y,
                !.fit_x = NaN, !.fit_y = NaN]

\* merge on (wavelength, order), then drop the rows left without a shift
RECURSIVE MergeShifts(_, _)
MergeShifts(table, shifts) ==
    IF table = <<>> THEN <<>>
    ELSE LET row == Head(table)
             SameLine(s) == s.wavelength = row.wavelength
                            /\ s.order = row.order
             found == SelectSeq(shifts, SameLine)
         IN Tabulate([j \in Rows(found) |-> ShiftedRow(row, found[j])],
                     Len(found))
            \o MergeShifts(Tail(table), shifts)

PredictedLineList ==
    LET catalogue == predictedLines[frameTech]
    IN IF ~firstGuessMap.given
       THEN SelectSeq(catalogue, IsMidSlit)
       ELSE LET table == FirstGuessPixels(catalogue)
            IN MergeShifts(table, ShiftList(table))

(***************************************************************************)
(* get()                                                                   *)
(***************************************************************************)
getInputs == <<dprTech, frameHeader, firstGuessMap, orderTablePath, predictedLines,
               recipeSettings, recipeVars>>

fitState == <<clippedCount, clipIteration, xcoeff, ycoeff, resPlot, mapFile>>

\* the frame is neither a single- nor a multi-pinhole frame
GetPredictedLineListRaise ==
    /\ pc = "start"
    /\ frameTech = "none"
    /\ slitDeg' = IF firstGuessMap.given THEN recipeSettings["slit-deg"]
                                         ELSE 0
    /\ pc' = "raised"
    /\ raised' = "TypeError"
    /\ UNCHANGED <<orderPixelTable, totalLines, qc, getInputs, fitState,
                   rasterVars>>

GetPredictedLineList ==
    /\ pc = "start"
    /\ frameTech # "none"
    /\ slitDeg' = IF firstGuessMap.given THEN recipeSettings["slit-deg"]
                                         ELSE 0
    /\ orderPixelTable' = PredictedLineList
    /\ pc' = "detect"
    /\ UNCHANGED <<totalLines, qc, raised, getInputs, fitState, rasterVars>>

\* what detect_pinhole_arc_line can find for a line: no source, or a source
\* at the guess or a pixel beside it
DetectOutcomes == {<<FALSE, 0, 0>>, <<TRUE, 0, 0>>, <<TRUE, 1, 0>>}

DetectRow(row, found) ==
    IF found[1]
    THEN Detected(row, row.detector_x + Scale * found[2],
                       row.detector_y + Scale * found[3])
    ELSE Detected(row, NaN, NaN)

\* recipeSettings["pixel-window-size"] and self.windowHalf, in pixels
pixelWindowSize == 5

windowHalf == pixelWindowSize \div 2

\* pinholeFrame.shape, in pixels
FrameShape == [x |-> 8, y |-> 10]

\* the stamp cut around the guess of a row: the pixels xlow..xup-1 by
\* ylow..yup-1 of the frame
Stamp(row) ==
    LET min(a, b) == IF a < b THEN a ELSE b
        max(a, b) == IF a > b THEN a ELSE b
    IN [xlow |-> max(row.detector_x - Scale * windowHalf, 0) \div Scale,
        xup |-> min(row.detector_x + Scale * windowHalf,
                    Scale * FrameShape.x) \div Scale,
        ylow |-> max(row.detector_y - Scale * windowHalf, 0) \div Scale,
        yup |-> min(row.detector_y + Scale * windowHalf,
                    Scale * FrameShape.y) \div Scale]

\* DAOStarFinder looks at the stamp only: a source it finds is on a pixel
\* of the stamp
SourceInStamp(row, found) ==
    found[1] =>
        LET stamp == Stamp(row)
            sx == row.detector_x + Scale * found[2]
            sy == row.detector_y + Scale * found[3]
        IN /\ Scale * stamp.xlow <= sx /\ sx < Scale * stamp.xup
           /\ Scale * stamp.ylow <= sy /\ sy < Scale * stamp.yup

\* "{:.6f}".format(detected / total), in units of 1e-6
Proportion(detected, total) ==
    (2 * 1000000 * detected + total) \div (2 * total)

DropNaNothing(table) == table

\* orderPixelTable.dropna(axis='index', how='any', subset=['observed_x'])
DropNa(table) ==
    LET HasX(row) == ~IsNaN(row.observed_x)
    IN SelectSeq(table, HasX)

\* the lines are looked for, the rows without observed_x dropped, NLINE and
\* PLINE appended and fit_polynomials entered
DetectLines ==
    /\ pc = "detect"
    /\ Len(orderPixelTable) > 0
    /\ \E found \in [Rows(orderPixelTable) -> DetectOutcomes] :
          /\ \A i \in Rows(orderPixelTable) :
                 SourceInStamp(orderPixelTable[i], found[i])
          /\ LET all == Tabulate([i \in Rows(orderPixelTable) |->
                                     DetectRow(orderPixelTable[i], found[i])],
                                 Len(orderPixelTable))
                 seen == DropNa(all)
             IN /\ orderPixelTable' = seen
                /\ totalLines' = Len(all)
                /\ qc' = qc \o << QC("NLINE", Len(seen)),
                                  QC("PLINE",
                                     Proportion(Len(seen), Len(all))) >>
    /\ clippedCount' = 1
    /\ clipIteration' = 0
    /\ pc' = "fit"
    /\ UNCHANGED <<raised, slitDeg, xcoeff, ycoeff, resPlot, mapFile,
                   getInputs, rasterVars>>

\* no row came out of get_predicted_line_list: detected / total divides by 0
DetectLinesRaise ==
    /\ pc = "detect"
    /\ Len(orderPixelTable) = 0
    /\ totalLines' = 0
    /\ pc' = "raised"
    /\ raised' = "ZeroDivisionError"
    /\ UNCHANGED <<orderPixelTable, qc, slitDeg, getInputs, fitState,
                   rasterVars>>

WantsMapImageNoTable == firstGuessMap.given

\* if self.firstGuessMap and self.orderTable
WantsMapImage == firstGuessMap.given /\ orderTablePath

\* get() hands the written map to map_to_image
GetMapToImage ==
    /\ pc = "written"
    /\ WantsMapImage
    /\ pc' = "map_to_image"
    /\ UNCHANGED <<orderPixelTable, totalLines, qc, raised, slitDeg,
                   getInputs, fitState, rasterVars>>

\* get() returns the map path and None for the map image
GetReturn ==
    /\ pc = "written"
    /\ ~WantsMapImage
    /\ pc' = "returned"
    /\ UNCHANGED <<orderPixelTable, totalLines, qc, raised, slitDeg,
                   getInputs, fitState, rasterVars>>

(***************************************************************************)
(* The inputs of a run of get()                                            *)
(***************************************************************************)
\* the i-th line of a catalogue file: the lines come in pairs of a mid-slit
\* pinhole and the pinhole beside it, on alternating orders; the third line
\* has no wavelength and the fourth no mid-slit partner
CatalogueLine(i) ==
    LET order == 1 + (((i - 1) \div 2) % 2)
    IN Line(order,
            IF i = 3 THEN NaN ELSE WaveLengthMin(order) + (i \div 4),
            detectorParams.mid_slit_index + ((i - 1) % 2),
            Scale * (4 + i), Scale * (4 + order))

\* the rows of CatalogueLine picked by a set of indices, in index order
RECURSIVE CatalogueOf(_, _)
CatalogueOf(picked, n) ==
    IF n = 0 THEN <<>>
    ELSE IF n \in picked
         THEN Append(CatalogueOf(picked, n - 1), CatalogueLine(n))
         ELSE CatalogueOf(picked, n - 1)

\* the catalogue with a wavelength in every row
WithWavelengths(catalogue) ==
    [i \in DOMAIN catalogue |->
        IF IsNaN(catalogue[i].wavelength)
        THEN [catalogue[i] EXCEPT
                 !.wavelength = WaveLengthMin(catalogue[i].order)]
        ELSE catalogue[i]]

Catalogues ==
    {[single |-> CatalogueOf(picked, MaxRows), multi |-> all] :
        picked \in SUBSET (1..MaxRows),
        all \in {CatalogueOf(1..MaxRows, MaxRows),
                 WithWavelengths(CatalogueOf(1..MaxRows, MaxRows))}}

\* the settings S with each of the slit degrees sds
WithSlitDeg(S, sds) ==
    {[s EXCEPT !["slit-deg"] = sd] : s \in S, sd \in sds}

\* the qcTable handed to __init__: empty, or with the record of an earlier
\* recipe
QcTables == {<<>>, << QC("RON DETECTOR", 3) >>}

Init ==
    /\ pc = "start"
    /\ dprTech \in {"ECHELLE,PINHOLE", "ECHELLE,MULTI-PINHOLE", "IMAGE"}
    /\ frameHeader = FullHeader(dprTech)
    /\ firstGuessMap \in {[given |-> FALSE, dx |-> 0, dy |-> 0, ds |-> 0],
                          [given |-> TRUE, dx |-> Scale, dy |-> 0, ds |-> 0],
                          [given |-> TRUE, dx |-> Scale, dy |-> 0, ds |-> Scale]}
    /\ orderTablePath \in BOOLEAN
    /\ predictedLines \in Catalogues
    /\ recipeSettings \in
           WithSlitDeg(Settings({0, 1}, {3 * KDen}, {0, MaxClipLimit}), {0, 1})
    /\ orderPixelTable = <<>>
    /\ totalLines = 0
    /\ qc \in QcTables
    /\ raised = "none"
    /\ slitDeg = 0
    /\ clippedCount = 1
    /\ clipIteration = 0
    /\ xcoeff = {}
    /\ ycoeff = {}
    /\ resPlot = FALSE
    /\ mapFile = <<>>
    /\ NoRecipe
    /\ RasterNotCalled

Next ==
    \/ GetPredictedLineList
    \/ GetPredictedLineListRaise
    \/ DetectLines
    \/ DetectLinesRaise
    \/ FitIteration
    \/ FitRaise
    \/ FitReturn
    \/ FitReturnRaise
    \/ WriteMapToFile
    \/ WriteMapToFileRaise
    \/ GetMapToImage
    \/ GetReturn

Spec == Init /\ [][Next]_vars

(***************************************************************************)
(* write_map_to_file: the coefficient records, on arrays of coefficients   *)
(***************************************************************************)
MaxDeg == 2

\* the characters of str(n), as decimal digits
RECURSIVE Digits(_)
Digits(n) == IF n < 10 THEN <<n>> ELSE Append(Digits(n \div 10), n % 10)

\* f'c{i}{j}{k}', without the leading c
CoeffName(i, j, k) == Digits(i) \o Digits(j) \o Digits(k)

\* dict[name] = value
SetItem(dict, name, value) ==
    [x \in DOMAIN dict \cup {name} |-> IF x = name THEN value ELSE dict[x]]

\* the three nested loops with their counter n_coeff, entered at (i, j, k)
RECURSIVE CoeffLoop(_, _, _, _, _, _, _, _, _)
CoeffLoop(coeff, od, wd, sd, i, j, k, n_coeff, dict) ==
    IF i > od THEN dict
    ELSE IF j > wd THEN CoeffLoop(coeff, od, wd, sd, i + 1, 0, 0, n_coeff, dict)
    ELSE IF k > sd THEN CoeffLoop(coeff, od, wd, sd, i, j + 1, 0, n_coeff, dict)
    ELSE CoeffLoop(coeff, od, wd, sd, i, j, k + 1, n_coeff + 1,
                   SetItem(dict, CoeffName(i, j, k), coeff[n_coeff + 1]))

\* the slit index outermost and the order index innermost
CoeffDictSlitOutermost(axis, coeff, od, wd, sd) ==
    [axis |-> axis, order_deg |-> od, wavelength_deg |-> wd, slit_deg |-> sd,
     c |-> CoeffLoop(coeff, sd, wd, od, 0, 0, 0, 0, <<>>)]

\* coeff_dict_x, coeff_dict_y
CoeffDict(axis, coeff, od, wd, sd) ==
    [axis |-> axis, order_deg |-> od, wavelength_deg |-> wd, slit_deg |-> sd,
     c |-> CoeffLoop(coeff, od, wd, sd, 0, 0, 0, 0, <<>>)]

\* the arrays curve_fit returns for a p0 of n ones: n coefficients
CoeffArrays(n) == {[m \in 1..n |-> a + b * m] : a \in {0, 100}, b \in {1, 3}}

SerialiseCoefficients ==
    /\ pc = "fitted"
    /\ mapFile' = << [x |-> CoeffDict("x", xcoeff, orderDeg, wavelengthDeg,
                                      slitDeg),
                      y |-> CoeffDict("y", ycoeff, orderDeg, wavelengthDeg,
                                      slitDeg)] >>
    /\ pc' = "serialised"
    /\ UNCHANGED <<orderPixelTable, qc, raised, clippedCount, clipIteration,
                   xcoeff, ycoeff, resPlot, fitInputs, rasterVars>>

InitCoeff ==
    /\ pc = "fitted"
    /\ dprTech = "ECHELLE,MULTI-PINHOLE"
    /\ frameHeader = FullHeader(dprTech)
    /\ firstGuessMap = [given |-> TRUE, dx |-> 0, dy |-> 0, ds |-> 0]
    /\ orderTablePath = FALSE
    /\ predictedLines = [single |-> <<>>, multi |-> <<>>]
    /\ recipeSettings \in
          {[s EXCEPT !["order-deg"] = od, !["wavelength-deg"] = wd] :
              s \in Settings({0}, {3 * KDen}, {MaxClipLimit}),
              od \in 0..MaxDeg, wd \in 0..MaxDeg}
    /\ slitDeg \in 0..MaxDeg
    /\ orderPixelTable = <<>>
    /\ totalLines = 0
    /\ qc = <<>>
    /\ raised = "none"
    /\ clippedCount = 0
    /\ clipIteration = 1
    /\ xcoeff \in CoeffArrays(NCoeff)
    /\ ycoeff \in CoeffArrays(NCoeff)
    /\ resPlot = FALSE
    /\ mapFile = <<>>
    /\ NoRecipe
    /\ RasterNotCalled

NextCoeff == SerialiseCoefficients

SpecCoeff == InitCoeff /\ [][NextCoeff]_vars

(***************************************************************************)
(* write_map_to_file on its own: every frame header                        *)
(***************************************************************************)
FrameHeaders ==
    {FrameHeader(arm, "ECHELLE,MULTI-PINHOLE", {"DPR_TECH"} \cup present) :
        arm \in Arms,
        present \in SUBSET ({"DPR_CATG", "DPR_TYPE"} \cup AmplifierKeys)}

InitWrite ==
    /\ pc = "fitted"
    /\ dprTech = "ECHELLE,MULTI-PINHOLE"
    /\ frameHeader \in FrameHeaders
    /\ firstGuessMap = [given |-> TRUE, dx |-> 0, dy |-> 0, ds |-> 0]
    /\ orderTablePath = FALSE
    /\ predictedLines = [single |-> <<>>, multi |-> <<>>]
    /\ recipeSettings \in Settings({0}, {3 * KDen}, {MaxClipLimit})
    /\ slitDeg \in {0, 1}
    /\ orderPixelTable = <<>>
    /\ totalLines = 2
    /\ qc \in {<< QC("NLINE", 2), QC("PLINE", 1000000), QC("XRESRMS", 0) >>,
               << QC("NLINE", 1), QC("PLINE", 500000), QC("XRESRMS", NaN) >>}
    /\ raised = "none"
    /\ clippedCount = 0
    /\ clipIteration = 1
    /\ xcoeff = {<<<<0, 0, 0>>, 5 * Scale>>}
    /\ ycoeff = {<<<<0, 0, 0>>, 6 * Scale>>}
    /\ resPlot = TRUE
    /\ mapFile = <<>>
    /\ NoRecipe
    /\ RasterNotCalled

NextWrite ==
    \/ WriteMapToFile
    \/ WriteMapToFileRaise
    \/ WriteMapToFileKeyError

SpecWrite == InitWrite /\ [][NextWrite]_vars

(***************************************************************************)
(* The construction of a recipe on its own: every input set                *)
(***************************************************************************)
InitRecipe ==
    /\ inputFrames \in InputFrameSets
    /\ supplementaryInput \in BOOLEAN
    /\ recipe = [pc |-> "init", raised |-> "none", prepared |-> {}]
    /\ pc = "start"
    /\ dprTech = "ECHELLE,PINHOLE"
    /\ frameHeader = FullHeader(dprTech)
    /\ firstGuessMap = [given |-> FALSE, dx |-> 0, dy |-> 0, ds |-> 0]
    /\ orderTablePath = FALSE
    /\ predictedLines = [single |-> <<>>, multi |-> <<>>]
    /\ recipeSettings = <<>>
    /\ orderPixelTable = <<>>
    /\ totalLines = 0
    /\ qc = <<>>
    /\ raised = "none"
    /\ slitDeg = 0
    /\ clippedCount = 0
    /\ clipIteration = 0
    /\ xcoeff = {}
    /\ ycoeff = {}
    /\ resPlot = FALSE
    /\ mapFile = <<>>
    /\ RasterNotCalled

NextRecipe ==
    \/ RecipeVerifyRaise
    \/ RecipeVerify
    \/ RecipePrepareFrames
    \/ RecipeProduceProduct

SpecRecipe == InitRecipe /\ [][NextRecipe]_vars

(***************************************************************************)
(* Properties of the fitter                                                *)
(***************************************************************************)
IterationStep == pc = "fit" /\ pc' = "fit" /\ clipIteration' # clipIteration

\* n*n*variance of the residuals_xy column of a table of n rows
ResidualVarNum(table) ==
    VarNum(Column(table, "residuals_xy"), Rows(table))

\* C5: fit_polynomials repeats fit -> residuals -> sigma-clip one iteration
\* at a time; an iteration starts only while rows were clipped in the last
\* one and the iteration count is below poly-clipping-iteration-limit, the
\* count never exceeds the limit, and the loop is left for the final
\* residuals only when nothing was clipped or the limit is reached.
C5_ClipLoopStops ==
    [][ /\ clipIteration' <= clippingIterationLimit
        /\ clipIteration' # clipIteration =>
               /\ clippedCount > 0
               /\ clipIteration < clippingIterationLimit
               /\ clipIteration' = clipIteration + 1
        /\ (pc = "fit" /\ pc' = "fitted") =>
               \/ clippedCount = 0
               \/ clipIteration = clippingIterationLimit ]_vars

\* the loop ran to a limit of several iterations and stopped there with
\* rows clipped in its last iteration
C5_Witness ==
    /\ pc = "fitted"
    /\ clippingIterationLimit = MaxClipLimit
    /\ clipIteration = clippingIterationLimit
    /\ clippedCount > 0

\* C6 (as claimed): every row left after the final clipping iteration has
\* |rxy| <= k * sigma, sigma the standard deviation of the surviving rows'
\* residuals and k the configured clipping sigma.
C6_WithinSigmaOfSurvivors ==
    pc \in {"fitted", "written"} =>
        \A i \in Rows(orderPixelTable) :
            Sq(orderPixelTable[i].residuals_xy) * Sq(KDen)
                    * Sq(Len(orderPixelTable))
                <= Sq(clippingSigma) * ResidualVarNum(orderPixelTable)

\* twice the median and four times the median absolute deviation of the
\* residuals the coefficients xc, yc leave on a table
ClipBounds(table, xc, yc) ==
    LET rxy == Column(CalculateResiduals(table, xc, yc), "residuals_xy")
    IN [rxy |-> rxy, med2 |-> Median2(rxy),
        mad4 |-> Median2(Deviation2(rxy))]

\* |v - median| <= k * 1.4826 * MAD
WithinClip(v, b) ==
    2 * Abs(2 * v - b.med2) * KDen * MadStd.den
        <= clippingSigma * MadStd.num * b.mad4

\* C6 (amended): a clipping iteration keeps exactly the rows whose residual
\* lies within median +/- k * mad_std of the residuals of all the rows that
\* entered the iteration, and the final residuals of the surviving rows are
\* those of the last iteration.
C6_WithinMadOfIteration ==
    [][ /\ IterationStep =>
               \A b \in {ClipBounds(orderPixelTable, xcoeff', ycoeff')} :
                  /\ \A j \in Rows(orderPixelTable') :
                         WithinClip(orderPixelTable'[j].residuals_xy, b)
                  /\ Len(orderPixelTable')
                         = Cardinality({i \in DOMAIN b.rxy :
                                           WithinClip(b.rxy[i], b)})
        /\ (pc = "fit" /\ pc' = "fitted" /\ Len(orderPixelTable) > 0) =>
               Column(orderPixelTable', "residuals_xy")
                   = Column(orderPixelTable, "residuals_xy") ]_vars

\* the loop ended at the cap, rows were clipped in its last iteration and
\* the final residuals of the rows left are not all zero
C6_Witness ==
    /\ pc = "fitted"
    /\ clipIteration = clippingIterationLimit
    /\ clippedCount > 0
    /\ Len(orderPixelTable) >= 2
    /\ \E i \in Rows(orderPixelTable) : orderPixelTable[i].residuals_xy > 0

\* C7 (as claimed): from one clip iteration to the next the surviving-row
\* count does not increase and the standard deviation of the surviving
\* rows' rxy does not increase.
C7_ClipMonotone ==
    [][ (IterationStep /\ clipIteration >= 1
                       /\ Len(orderPixelTable') >= 1) =>
            /\ Len(orderPixelTable') <= Len(orderPixelTable)
            /\ ResidualVarNum(orderPixelTable') * Sq(Len(orderPixelTable))
                   <= ResidualVarNum(orderPixelTable)
                          * Sq(Len(orderPixelTable')) ]_vars

\* how often a line occurs in a table
Occurrences(table, row) ==
    Cardinality({i \in Rows(table) : RowKey(table[i]) = RowKey(row)})

\* C7 (amended): the surviving-row count never increases; an iteration
\* removes exactly the rows it clipped, and every row it leaves was in the
\* table before.
C7_RowsOnlyDropped ==
    [][ /\ Len(orderPixelTable') <= Len(orderPixelTable)
        /\ IterationStep =>
               /\ Len(orderPixelTable')
                      = Len(orderPixelTable) - clippedCount'
               /\ \A j \in Rows(orderPixelTable') :
                      Occurrences(orderPixelTable', orderPixelTable'[j])
                          <= Occurrences(orderPixelTable,
                                         orderPixelTable'[j]) ]_vars

\* two successive iterations have each dropped rows
C7_Witness ==
    /\ pc = "fit"
    /\ clipIteration = 2
    /\ clippedCount > 0
    /\ Len(orderPixelTable) >= 1
    /\ Len(orderPixelTable) < totalLines - clippedCount

\* C8: when fewer rows than coefficients are left, no dispersion map is
\* written.
C8_NoMapWhenUnderdetermined ==
    mapFile # <<>> => Len(orderPixelTable) >= NCoeff

\* curve_fit is never run on fewer rows than coefficients: in the loop too
\* few rows end the run
C8_NoFitWhenUnderdetermined ==
    [][ /\ xcoeff' # xcoeff => Len(orderPixelTable) >= NCoeff
        /\ (pc = "fit" /\ FitLoopCond /\ Len(orderPixelTable) < NCoeff) =>
               (pc' = "raised" /\ mapFile' = <<>>) ]_vars

\* detection or clipping left fewer rows than coefficients and the next
\* pass of the loop ended the run
C8_Witness ==
    /\ pc = "raised"
    /\ raised = "TypeError"
    /\ clipIteration = 2
    /\ mapFile = <<>>

(***************************************************************************)
(* Properties of get()                                                     *)
(***************************************************************************)
HasNaNInput(row) ==
    \/ IsNaN(row.order) \/ IsNaN(row.wavelength) \/ IsNaN(row.slit_position)
    \/ IsNaN(row.observed_x) \/ IsNaN(row.observed_y)

\* C9: no least-squares fit is run on a table with a NaN in order,
\* wavelength, slit_position, observed_x or observed_y.
C9_NoFitOnNaN ==
    [][ IterationStep =>
            \A i \in Rows(orderPixelTable) :
                ~HasNaNInput(orderPixelTable[i]) ]_vars

\* the rows without an observed position never reach the fit
C9_ObservedAtFit ==
    pc \in {"fit", "fitted", "written"} =>
        \A i \in Rows(orderPixelTable) :
            /\ ~IsNaN(orderPixelTable[i].observed_x)
            /\ ~IsNaN(orderPixelTable[i].observed_y)

\* a catalogue line without a wavelength was detected and fitted, and the
\* map of that fit was written
C9_Witness ==
    /\ pc = "written"
    /\ \E i \in Rows(orderPixelTable) : IsNaN(orderPixelTable[i].wavelength)

\* C10: on a single-pinhole frame only rows of the mid slit index leave the
\* catalogue reader, so no other row reaches the line detection, the fit or
\* the QC line counts.
C10_MidSlitOnly ==
    frameTech = "single" =>
        \A i \in Rows(orderPixelTable) : IsMidSlit(orderPixelTable[i])

\* without a first-guess map only rows of the mid slit index leave the
\* catalogue reader
C10_MidSlitWithoutFirstGuess ==
    ~firstGuessMap.given =>
        \A i \in Rows(orderPixelTable) : IsMidSlit(orderPixelTable[i])

\* a single-pinhole frame whose catalogue holds other pinholes, run without
\* a first-guess map: the lines that reach the fit are fewer than the
\* catalogue's
C10_Witness ==
    /\ frameTech = "single"
    /\ ~firstGuessMap.given
    /\ pc = "fit"
    /\ totalLines >= 1
    /\ totalLines < Len(predictedLines.single)

PinholeTechs == {"ECHELLE,PINHOLE", "ECHELLE,MULTI-PINHOLE"}

\* C11: on a frame whose DPR TECH is neither ECHELLE,PINHOLE nor
\* ECHELLE,MULTI-PINHOLE the only step of get() is to raise TypeError: the
\* line table stays empty, no line is looked for, no QC record is appended
\* and no map is written.
C11_WrongTechniqueIsFatal ==
    [][ dprTech \notin PinholeTechs =>
            /\ pc = "start" /\ pc' = "raised" /\ raised' = "TypeError"
            /\ orderPixelTable = <<>>
            /\ UNCHANGED <<orderPixelTable, totalLines, qc, mapFile, rpc>> ]_vars

\* get() has raised on a frame of another technique
C11_Witness ==
    /\ dprTech \notin PinholeTechs
    /\ pc = "raised"
    /\ raised = "TypeError"
    /\ qc = <<>>
    /\ mapFile = <<>>

(***************************************************************************)
(* Properties of map_to_image as get() calls it                            *)
(***************************************************************************)
\* C12: map_to_image writes no raster from a dispersion map whose slit
\* degree is 0.
C12_SingleMapRejected == rpc = "written" => dispMap.slit_deg # 0

\* map_to_image has written the raster of a map with a slit dependence
C12_Witness ==
    /\ rpc = "written"
    /\ dispMap.slit_deg > 0
    /\ \E p \in Pixels : ~IsNaN(combinedSlitImage[p])

\* get() never calls map_to_image with a map of slit degree 0 (it does: a
\* first-guess map, an order table and a slit-deg setting of 0)
C12_CallHasSlitDegree == pc = "map_to_image" => mapFile[1].slit_deg # 0

\* the map file says single-pinhole exactly when its slit degree is 0
C12_ProTechBySlitDegree ==
    mapFile # <<>> =>
        (mapFile[1].pro_tech = "ECHELLE,PINHOLE" <=> mapFile[1].slit_deg = 0)

\* a run every reading takes for a multi-pinhole run, and one every reading
\* takes for a single-pinhole run
MultiPinholeRun == frameTech = "multi" /\ firstGuessMap.given /\ slitDeg > 0

SinglePinholeRun == frameTech = "single" /\ ~firstGuessMap.given

\* C13 (as claimed): every multi-pinhole run ends in the call of the
\* rasteriser and every single-pinhole run returns None for the raster path.
C13_RasterIffMultiPinhole ==
    /\ (MultiPinholeRun /\ pc \in {"written", "returned", "map_to_image"}) =>
           pc # "returned"
    /\ SinglePinholeRun => pc # "map_to_image"

\* C13 (amended): get() calls map_to_image exactly in the runs that were
\* given both a first-guess map and an order table and have written the
\* dispersion map; every other run that has written its map returns None
\* for the raster path without calling the rasteriser.
C13_RasterIffMapAndTable ==
    [][ /\ pc' = "map_to_image" =>
               (pc = "written" /\ firstGuessMap.given /\ orderTablePath
                               /\ mapFile # <<>>)
        /\ pc' = "returned" =>
               (pc = "written" /\ ~(firstGuessMap.given /\ orderTablePath))
        /\ pc = "written" => pc' \in {"map_to_image", "returned"}
        /\ rpc' = "idle" ]_vars

\* a multi-pinhole run with a first-guess map and no order table has
\* returned without a raster
C13_Witness ==
    /\ MultiPinholeRun
    /\ ~orderTablePath
    /\ pc = "returned"
    /\ mapFile # <<>>

\* what the work unit of order o returns when it runs alone
ResultOf(o) ==
    OrderToImage(o, InitialGrid(o), Placeholder(o), Placeholder(o), 0, 1, 1)

\* the results handed to the combiner in the order perm
Reordered(images, perm) == [o \in Orders |-> images[perm[o]]]

Failed(o) == opc[o] \in {"raised", "timeout"}

AllNaN(o) == \A p \in InTrace(o) : IsNaN(wlMap[o][p]) /\ IsNaN(slitMap[o][p])

\* what the combiner makes of one image alone at a pixel
Alone(v, nanSum) == IF IsNaN(v) THEN (IF nanSum THEN 0 ELSE NaN) ELSE v

\* the written rasters hold at p what the result of order n alone gives
OwnValueAt(n, p) ==
    \E nanSum \in BOOLEAN :
        /\ combinedWlImage[p] = Alone(wlMap[n][p], nanSum)
        /\ combinedSlitImage[p] = Alone(slitMap[n][p], nanSum)

\* a work unit writes only pixels of its own trace
C16_WritesOwnTraceOnly ==
    \A o \in Orders : opc[o] \in {"loop", "returned", "timeout"} =>
        \A p \in Pixels \ InTrace(o) : wlMap[o][p] = 0 /\ slitMap[o][p] = 0

\* C16 (as claimed): a work unit writes only pixels of its own trace, and
\* when an order returns with its whole trace NaN the written rasters hold,
\* at every pixel of every other order's trace, what that order's own
\* result gives.
C16_OrderIsolation ==
    /\ C16_WritesOwnTraceOnly
    /\ rpc = "written" =>
          \A m \in Orders : AllNaN(m) =>
              \A n \in Orders \ {m} : \A p \in InTrace(n) : OwnValueAt(n, p)

\* the same for the pixels that lie in no other trace
C16_IsolationOffSharedPixels ==
    rpc = "written" =>
        \A m \in Orders : AllNaN(m) =>
            \A n \in Orders \ {m} : \A p \in InTrace(n) \ InTrace(m) :
                OwnValueAt(n, p)

\* an order returned all NaN at the iteration limit, another order assigned
\* a pixel that lies in both traces, and the written raster holds NaN there
C16_Witness ==
    /\ rpc = "written"
    /\ \E m \in Orders :
          /\ AllNaN(m)
          /\ \E n \in Orders \ {m} : \E p \in InTrace(n) \cap InTrace(m) :
                ~IsNaN(wlMap[n][p]) /\ IsNaN(combinedWlImage[p])

\* the step of get() from the line detection into fit_polynomials
DetectionStep == pc = "detect" /\ pc' = "fit"

\* C17: a line that is not found does not end the run; every row handed to
\* the detection is counted after it (totalLines), the rows that go on are
\* rows of the table with an observed x and y, NLINE counts them, and no
\* fit is run on a row without an observed position.
C17_NonDetectionsDropped ==
    [][ /\ (pc = "detect" /\ Len(orderPixelTable) > 0) =>
               (DetectionStep /\ raised' = "none")
        /\ DetectionStep =>
               /\ totalLines' = Len(orderPixelTable)
               /\ Len(orderPixelTable') <= totalLines'
               /\ \A i \in Rows(orderPixelTable') :
                     /\ ~IsNaN(orderPixelTable'[i].observed_x)
                     /\ ~IsNaN(orderPixelTable'[i].observed_y)
                     /\ \E j \in Rows(orderPixelTable) :
                           /\ orderPixelTable'[i].order = orderPixelTable[j].order
                           /\ orderPixelTable'[i].wavelength =
                                  orderPixelTable[j].wavelength
                           /\ orderPixelTable'[i].slit_index =
                                  orderPixelTable[j].slit_index
                           /\ orderPixelTable'[i].detector_x =
                                  orderPixelTable[j].detector_x
               /\ qc'[Len(qc') - 1].qc_name = "NLINE"
               /\ qc'[Len(qc') - 1].qc_value = Len(orderPixelTable')
        /\ IterationStep =>
               \A i \in Rows(orderPixelTable) :
                   /\ ~IsNaN(orderPixelTable[i].observed_x)
                   /\ ~IsNaN(orderPixelTable[i].observed_y) ]_vars

\* one of two lines was not found, the run went on and the other was fitted
C17_Witness ==
    /\ pc = "fitted"
    /\ totalLines = 2
    /\ qc[1].qc_name = "NLINE" /\ qc[1].qc_value = 1
    /\ Len(orderPixelTable) = 1
    /\ xcoeff # {}

FlatIndex(i, j, k) ==
    i * (wavelengthDeg + 1) * (slitDeg + 1) + j * (slitDeg + 1) + k

\* the record holds the degrees and one column per (i, j, k), with the
\* array entry at the flattened index
OrderedAs(record, coeff) ==
    /\ record.order_deg = orderDeg
    /\ record.wavelength_deg = wavelengthDeg
    /\ record.slit_deg = slitDeg
    /\ DOMAIN record.c =
          {CoeffName(i, j, k) :
              i \in 0..orderDeg, j \in 0..wavelengthDeg, k \in 0..slitDeg}
    /\ Cardinality(DOMAIN record.c) = Len(coeff)
    /\ \A i \in 0..orderDeg, j \in 0..wavelengthDeg, k \in 0..slitDeg :
          record.c[CoeffName(i, j, k)] = coeff[FlatIndex(i, j, k) + 1]

\* C19: the coefficient arrays have (d_m+1)(d_lambda+1)(d_s+1) entries and
\* the written x and y records hold, in the column named c{i}{j}{k}, the
\* entry at the flattened index i(d_lambda+1)(d_s+1) + j(d_s+1) + k.
C19_CoefficientOrdering ==
    /\ Len(xcoeff) = (orderDeg + 1) * (wavelengthDeg + 1) * (slitDeg + 1)
    /\ Len(ycoeff) = Len(xcoeff)
    /\ pc = "serialised" =>
          /\ mapFile[1].x.axis = "x" /\ OrderedAs(mapFile[1].x, xcoeff)
          /\ mapFile[1].y.axis = "y" /\ OrderedAs(mapFile[1].y, ycoeff)

\* records of three different degrees, x and y arrays different
C19_Witness ==
    /\ pc = "serialised"
    /\ orderDeg = 2 /\ wavelengthDeg = 1 /\ slitDeg = 0
    /\ xcoeff # ycoeff
    /\ mapFile[1].x.c[CoeffName(1, 1, 0)] = xcoeff[4]
    /\ mapFile[1].y.c[CoeffName(2, 0, 0)] = ycoeff[5]

\* C20: write_map_to_file leaves the frame header as it was; the header it
\* writes has none of the DPR keywords and none of DET_READ_SPEED, CONAD,
\* GAIN, RON, has PRO CATG = DISP_TAB_<arm>, and keeps every other keyword
\* of the frame with its value; the write succeeds whichever of the four
\* amplifier keywords the frame header lacks.
C20_CleanHeaderCopy ==
    [][ pc = "fitted" =>
            /\ frameHeader' = frameHeader
            /\ (DprKeys \subseteq DOMAIN frameHeader /\ ~HeaderError) =>
                   pc' = "written"
            /\ pc' = "written" =>
                   \A h \in {mapFile'[1].header} :
                       /\ DOMAIN h \cap (DprKeys \cup AmplifierKeys) = {}
                       /\ h["PRO_CATG"] = ProCatg(frameHeader["SEQ_ARM"])
                       /\ h["PRO_TYPE"] = "REDUCED"
                       /\ \A t \in DOMAIN frameHeader \
                                      (DprKeys \cup AmplifierKeys) :
                              t \in DOMAIN h /\ h[t] = frameHeader[t] ]_vars

\* a map written from a VIS frame whose header has none of the four
\* amplifier keywords
C20_Witness ==
    /\ pc = "written"
    /\ frameHeader["SEQ_ARM"] = "VIS"
    /\ DOMAIN frameHeader \cap AmplifierKeys = {}
    /\ DprKeys \subseteq DOMAIN frameHeader
    /\ mapFile[1].header["PRO_CATG"] = "DISP_TAB_VIS"
    /\ "EXPTIME" \in DOMAIN mapFile[1].header

(***************************************************************************)
(* Properties of the QC records                                            *)
(***************************************************************************)
\* the names of the records of a QC table, in their order
QcNames(table) == [i \in DOMAIN table |-> table[i].qc_name]

RunQcNames ==
    << "NLINE", "PLINE", "XRESMIN", "XRESMAX", "XRESRMS", "YRESMIN",
       "YRESMAX", "YRESRMS", "XYRESMIN", "XYRESMAX", "XYRESRMS" >>

\* C21: every step of get() leaves the QC records it found in place and
\* only appends; a run that has left fit_polynomials holds, after the
\* records it was given, NLINE, PLINE and the nine residual QCs once each
\* and in this order, however many clipping iterations were run.
C21_QcAppendOnly ==
    /\ [][ /\ Len(qc') >= Len(qc)
           /\ SubSeq(qc', 1, Len(qc)) = qc ]_vars
    /\ [](pc \in {"fitted", "written", "returned", "map_to_image"} =>
            \E given \in QcTables :
                /\ Len(qc) = Len(given) + Len(RunQcNames)
                /\ SubSeq(qc, 1, Len(given)) = given
                /\ QcNames(SubSeq(qc, Len(given) + 1, Len(qc))) = RunQcNames)

\* a run that was given a QC record and went through two clipping
\* iterations has returned
C21_Witness ==
    /\ pc = "returned"
    /\ clipIteration = 2
    /\ Len(qc) = 12
    /\ qc[1] = QC("RON DETECTOR", 3)
    /\ qc[2].qc_name = "NLINE"
    /\ qc[12].qc_name = "XYRESRMS"


(***************************************************************************)
(* Properties of the files a run leaves on disk                            *)
(***************************************************************************)

\* C22: after a run of get() that has raised, none of the run's outputs is
\* on disk: neither the residual plot of fit_polynomials nor the dispersion
\* map of write_map_to_file
C22_NoPartialFiles ==
    pc = "raised" => (~resPlot /\ mapFile = <<>>)

\* a run whose write_map_to_file has raised after fit_polynomials returned
C22_Witness ==
    /\ pc = "raised"
    /\ raised \in {"ValueError", "KeyError"}
    /\ xcoeff # {}
    /\ resPlot
    /\ mapFile = <<>>


(***************************************************************************)
(* Properties of get_predicted_line_list                                   *)
(***************************************************************************)
\* the row has an evaluation by the first-guess map
HasPriorEvaluation(row) ==
    LET e == FirstGuessRow(row)
    IN /\ ~IsNaN(e.fit_x) /\ e.fit_x > 0
       /\ ~IsNaN(e.fit_y) /\ e.fit_y > 0

\* m is the mid-slit row of the line of row r
MidSlitOf(m, r) ==
    /\ m.slit_index = detectorParams.mid_slit_index
    /\ m.wavelength = r.wavelength
    /\ m.order = r.order
    /\ HasPriorEvaluation(m)

\* row out is the catalogue row r with its guess moved by the shift of m
GuessMovedBy(out, r, m) ==
    /\ out.order = r.order
    /\ out.wavelength = r.wavelength
    /\ out.slit_index = r.slit_index
    /\ out.detector_x = r.detector_x - (m.detector_x - FirstGuessRow(m).fit_x)
    /\ out.detector_y = r.detector_y - (m.detector_y - FirstGuessRow(m).fit_y)

\* the rows of a table counted with their plain columns
SameLineAs(row, r) ==
    /\ row.order = r.order
    /\ row.wavelength = r.wavelength
    /\ row.slit_index = r.slit_index

\* C23: with a first-guess map every row that leaves get_predicted_line_list
\* is a catalogue row with a prior evaluation whose guess was moved by the
\* shift of the mid-slit row of its line, whatever its own slit index; every
\* such catalogue row leaves once, and the rows without a prior evaluation
\* do not leave; without a first-guess map the rows that leave are catalogue
\* rows with their guess as it was
C23_ShiftFromMidSlit ==
    [][ (pc = "start" /\ pc' = "detect") =>
          LET catalogue == predictedLines[frameTech]
              out == orderPixelTable'
          IN IF firstGuessMap.given
             THEN /\ \A i \in DOMAIN out :
                        \E j \in DOMAIN catalogue :
                            /\ HasPriorEvaluation(catalogue[j])
                            /\ \E k \in DOMAIN catalogue :
                                   /\ MidSlitOf(catalogue[k], catalogue[j])
                                   /\ GuessMovedBy(out[i], catalogue[j],
                                                   catalogue[k])
                  /\ \A j \in DOMAIN catalogue :
                        Cardinality({i \in DOMAIN out :
                                        SameLineAs(out[i], catalogue[j])})
                        = IF /\ HasPriorEvaluation(catalogue[j])
                             /\ \E k \in DOMAIN catalogue :
                                    MidSlitOf(catalogue[k], catalogue[j])
                          THEN 1 ELSE 0
             ELSE \A i \in DOMAIN out :
                      \E j \in DOMAIN catalogue : out[i] = catalogue[j] ]_vars

\* a row beside the mid slit has left with the shift of the mid-slit row,
\* which is not the shift of its own prior evaluation, and the rows without
\* a prior evaluation or without a mid-slit row have not left
C23_Witness ==
    /\ pc = "detect"
    /\ firstGuessMap.given
    /\ firstGuessMap.ds # 0
    /\ Len(orderPixelTable) < Len(predictedLines[frameTech])
    /\ \E i \in DOMAIN orderPixelTable :
           \E j \in DOMAIN predictedLines[frameTech] :
               LET r == predictedLines[frameTech][j]
                   row == orderPixelTable[i]
               IN /\ SameLineAs(row, r)
                  /\ r.slit_index # detectorParams.mid_slit_index
                  /\ row.detector_x # r.detector_x
                  /\ row.detector_x # FirstGuessRow(r).fit_x


(***************************************************************************)
(* Properties of detect_pinhole_arc_line                                   *)
(***************************************************************************)
\* the side of the stamp of a window of pixelWindowSize pixels
StampSide == 2 * (pixelWindowSize \div 2) + 1

\* the guess a detected row was looked for at: detector_x, detector_y
FullStamp(row) ==
    /\ Stamp(row).xup - Stamp(row).xlow >= StampSide
    /\ Stamp(row).yup - Stamp(row).ylow >= StampSide

\* C24: a line whose stamp, cut around the guess and clipped to the frame,
\* is smaller than 2*floor(W/2)+1 pixels on either axis is marked
\* not-detected: every row that leaves the detection with an observed
\* position has a stamp of the full side
C24_SmallStampNotDetected ==
    [][ (pc = "detect" /\ pc' = "fit") =>
          \A i \in DOMAIN orderPixelTable' :
              FullStamp(orderPixelTable'[i]) ]_vars

\* a line is detected on a stamp that the edge of the frame has clipped
C24_Witness ==
    /\ pc = "fit"
    /\ \E i \in DOMAIN orderPixelTable :
           LET stamp == Stamp(orderPixelTable[i])
           IN /\ ~IsNaN(orderPixelTable[i].observed_x)
              /\ stamp.xup - stamp.xlow < 2 * windowHalf
              /\ stamp.xup = FrameShape.x


(***************************************************************************)
(* Properties of convert_and_fit                                           *)
(***************************************************************************)
\* the samples of the grid of order o that the forward map puts on the
\* detector in pixel (x, y)
Members(o, x, y) ==
    {i \in DOMAIN bigArray[o] :
        \A r \in {SampleRow(o, bigArray[o][i])} :
            /\ r.pixel_x = x /\ r.pixel_y = y
            /\ r.fit_x > 0 /\ r.fit_y > 0}

\* sample i of the grid of order o is nearest to the centre of its pixel
\* among the samples g
Nearest(o, i, g) ==
    \A j \in g : SampleRow(o, bigArray[o][i]).residual_xy2
                    <= SampleRow(o, bigArray[o][j]).residual_xy2

\* the pixels that hold samples of the grid of order o
SampledPixels(o) ==
    {<<SampleRow(o, bigArray[o][i]).pixel_x,
       SampleRow(o, bigArray[o][i]).pixel_y>> : i \in DOMAIN bigArray[o]}

\* C25: in every iteration of convert_and_fit a pixel that gets a value has
\* at least 3 samples of the iteration's grid in it and gets the wavelength
\* and slit position of a sample nearest to its centre; the pixels counted
\* as remaining, which are the ones refined next, are those with at least 3
\* samples none of which is nearer to the centre than the threshold
C25_FringePixelRule ==
    [][ \A o \in Orders :
          (opc[o] = "loop" /\ iteration'[o] = iteration[o] + 1) =>
            /\ \A p \in Pixels :
                 (IsNaN(wlMap[o][p]) /\ ~IsNaN(wlMap'[o][p])) =>
                    \A g \in {Members(o, p[2], p[1])} :
                       /\ Cardinality(g) >= 3
                       /\ \E i \in g :
                            /\ Nearest(o, i, g)
                            /\ wlMap'[o][p] = bigArray[o][i].wavelength
                            /\ slitMap'[o][p] = bigArray[o][i].slit_position
            /\ \A carried \in
                   {{q \in SampledPixels(o) :
                        \A g \in {Members(o, q[1], q[2])} :
                           /\ Cardinality(g) >= 3
                           /\ \A i \in g :
                                SampleRow(o, bigArray[o][i]).residual_xy2
                                   >= Sq(threshold)}} :
                 /\ remainingCount'[o] = Cardinality(carried)
                 /\ bigArray'[o] # bigArray[o] =>
                       Len(bigArray'[o])
                          <= GridSize * GridSize * Cardinality(carried) ]_vars

\* an iteration has assigned pixels and left none to refine, while a pixel
\* of the trace that is still NaN held one or two samples of its grid, one
\* of them nearer to the centre than the threshold
C25_Witness ==
    \E o \in Orders :
        /\ opc[o] = "loop"
        /\ iteration[o] >= 1
        /\ remainingCount[o] = 0
        /\ newPixels[o] # {}
        /\ \E p \in Pixels :
              /\ IsNaN(wlMap[o][p])
              /\ \A g \in {Members(o, p[2], p[1])} :
                    /\ Cardinality(g) \in {1, 2}
                    /\ \E i \in g :
                          SampleRow(o, bigArray[o][i]).residual_xy2
                             < Sq(threshold)


(***************************************************************************)
(* Properties of the construction of a recipe                              *)
(***************************************************************************)
\* the input frames differ in keyword k (a keyword without a value aside)
MixedIn(k) ==
    IF k \in {"ron", "chip_ron"}
    THEN Cardinality({f[k] : f \in inputFrames} \ {NaN}) > 1
    ELSE Cardinality({f[k] : f \in inputFrames}) > 1

\* a frame of a type the stare-mode recipe does not take for its arm
WrongFrameType(f) ==
    IF f.arm = "NIR"
    THEN \/ f.dpr_type # "LAMP,FMTCHK"
         \/ f.dpr_tech \notin {"ECHELLE,PINHOLE", "IMAGE"}
    ELSE f.dpr_type \notin {"LAMP,FMTCHK", "BIAS", "DARK"}

\* the input set mixes arms, binnings, readout speeds, gains or read-noise,
\* or holds a frame of a wrong type
RejectedInput ==
    \/ \E k \in {"arm", "cdelt1", "cdelt2", "read_speed", "conad", "ron",
                 "chip_ron"} : MixedIn(k)
    \/ \E f \in inputFrames : WrongFrameType(f)

C27_CoefficientsOfSurvivors ==
    pc = "fitted" =>
        /\ CurveFitError(orderPixelTable) = "none"
        /\ xcoeff = CurveFit(orderPixelTable, "observed_x")
        /\ ycoeff = CurveFit(orderPixelTable, "observed_y")

\* fit_polynomials has returned at the iteration cap with rows clipped in
\* its last iteration, and the fit on the rows left gives other x
\* coefficients than the ones returned
C27_Witness ==
    /\ pc = "fitted"
    /\ clipIteration = clippingIterationLimit
    /\ clippedCount > 0
    /\ CurveFitError(orderPixelTable) = "none"
    /\ xcoeff # CurveFit(orderPixelTable, "observed_x")


\* C28: whatever the iteration limit, when the loop of fit_polynomials is
\* over at least one fit has been made and the x and y coefficients are
\* bound; no run ends on unbound coefficients
C28_CoefficientsDefined ==
    /\ (pc = "fit" /\ ~FitLoopCond) =>
           (clipIteration >= 1 /\ xcoeff # {} /\ ycoeff # {})
    /\ raised # "UnboundLocalError"

\* with an iteration limit of 0 a table with rows enough for the fit has
\* ended the run at the final calculate_residuals
C28_Witness ==
    /\ pc = "raised"
    /\ raised = "UnboundLocalError"
    /\ clippingIterationLimit = 0
    /\ clipIteration = 0
    /\ Len(orderPixelTable) >= NCoeff
    /\ qc = <<>>


(***************************************************************************)
(* Properties of the pinhole mode                                          *)
(***************************************************************************)
\* the mode get() takes from the presence of a first-guess map, for the
\* mid-slit filter, the slit degree and the recipe's name
MapMode == IF firstGuessMap.given THEN "multi" ELSE "single"

\* C29: in a run of get() that has read a catalogue, the catalogue is that
\* of the mode the first-guess map gives, and on the single-pinhole
\* catalogue the slit degree is 0 and only mid-slit rows are in the table
C29_ModeConsistency ==
    (pc # "start" /\ frameTech # "none") =>
        /\ frameTech = MapMode
        /\ frameTech = "single" =>
               /\ slitDeg = 0
               /\ \A i \in Rows(orderPixelTable) :
                      IsMidSlit(orderPixelTable[i])

\* a single-pinhole frame run with a first-guess map: lines beside the mid
\* slit were fitted with a slit degree of 1 and the map was written as a
\* multi-pinhole product
C29_Witness ==
    /\ pc = "written"
    /\ frameTech = "single"
    /\ firstGuessMap.given
    /\ slitDeg = 1
    /\ \E i \in Rows(orderPixelTable) : ~IsMidSlit(orderPixelTable[i])
    /\ mapFile[1].pro_tech = "ECHELLE,MULTI-PINHOLE"


(***************************************************************************)
(* Properties of the combined raster                                       *)
(***************************************************************************)
\* order o has committed a value at pixel p and the written rasters hold it
SuppliedBy(o, p) ==
    /\ p \in InTrace(o)
    /\ ~IsNaN(wlMap[o][p])
    /\ combinedWlImage[p] = wlMap[o][p]
    /\ combinedSlitImage[p] = slitMap[o][p]

\* C30: in the written raster every assigned pixel holds the wavelength and
\* slit position that the work unit of one order committed there, and the
\* ORDER image names that order
C30_SingleOrderValue ==
    rpc = "written" =>
        \A p \in Pixels :
            ~IsNaN(combinedWlImage[p]) =>
                \E o \in Orders : SuppliedBy(o, p) /\ orderImage[p] = o

\* two orders have committed a wavelength at a pixel of both their traces
\* and the written raster holds the sum of the two
C30_Witness ==
    /\ rpc = "written"
    /\ \E p \in Pixels : \E m \in Orders : \E n \in Orders \ {m} :
          /\ p \in InTrace(m) \cap InTrace(n)
          /\ ~IsNaN(wlMap[m][p]) /\ ~IsNaN(wlMap[n][p])
          /\ combinedWlImage[p] = wlMap[m][p] + wlMap[n][p]
          /\ combinedWlImage[p] # wlMap[m][p]
          /\ combinedWlImage[p] # wlMap[n][p]

====
